---- MODULE Spec2Model ----
(***************************************************************************)
(* Online-retraining pipeline of the statistical anomaly detector:         *)
(* PoisoningController (scripts/poisoning_controller.py),                  *)
(* RetrainingScheduler (scripts/retraining_scheduler.py),                  *)
(* DockerAnomalyDetector.train / save_model                                *)
(* (scripts/docker_anomaly_detector.py), create_synthetic_test_set         *)
(* (scripts/create_synthetic_test_set.py), PerformanceTracker              *)
(* .evaluate_detector (scripts/performance_tracker.py),                    *)
(* NetworkActivityGenerator.generate_flow (scripts/generate_activity.py)   *)
(* and DataAccumulator (scripts/data_accumulator.py).                      *)
(*                                                                         *)
(* The processes share nothing but files, so the state is the content of   *)
(* the files plus the in-memory fields of the one RetrainingScheduler      *)
(* object.  A CSV file is represented by the number of its label==0 and    *)
(* label==1 data rows; every decision of the modelled code depends on the  *)
(* rows only through these counts.  The DataAccumulator compares rows, so  *)
(* its own specification keeps the snapshot files with their rows          *)
(* (snapshot_files); the pipeline reads the same directory as counts       *)
(* (snapshots).  The detector's statistics, predict_single and             *)
(* get_anomaly_score and the tracker's confusion counts and alert depend   *)
(* on the values in the rows, so their specifications keep the rows with   *)
(* their feature values (feature_stats, model_artifact, test_set_rows,     *)
(* metrics_rows, performance_history).                                     *)
(***************************************************************************)
EXTENDS Integers, FiniteSets, Sequences, TLC

VARIABLES
    config,            \* poisoning_config.json (operator-edited)
    state,             \* poisoning_state.json (owned by PoisoningController)
    retrain_logs,      \* retraining_logs/retrain_<iteration>_<ts>.json
    now,               \* wall clock, in seconds (datetime.now())
    sched,             \* life cycle of the RetrainingScheduler object
    retrain_count,     \* RetrainingScheduler.retrain_count
    retraining_cycle,  \* RetrainingScheduler.retraining_cycle
    running,           \* RetrainingScheduler.running
    baseline,          \* original_dataset CSV
    unsw_present,      \* /data/training_data/UNSW_NB15.csv exists
    snapshots,         \* accumulated_data/snapshot_<ts>.csv, sorted by name
    combined_training, \* accumulated_data/combined_training.csv
    latest_model,      \* models/latest_model.json
    model_files,       \* models/model_<ts>.json and model_before_retrain_*
    training_logs,     \* logs/training_log_<ts>.json
    fixed_test_set,    \* /data/test_sets/fixed_test_set.csv
    test_set_flag,     \* /data/test_sets/synthetic_test_set_created.flag
    metrics,           \* output/performance_over_time.csv, data rows
    completed,         \* history: successful cycles recorded in output_dir
    last,              \* the last call made and what it returned
    flow,              \* the flow generate_flow returned last
    network_data,      \* /var/log/activity/network_data.csv (live traffic)
    snapshot_files,    \* accumulated_data/snapshot_<ts>.csv, with their rows
    snapshot_count,    \* DataAccumulator.snapshot_count
    accumulated_synthetic, \* accumulated_data/accumulated_synthetic.csv
    feature_stats,     \* DockerAnomalyDetector.feature_stats
    model_artifact,    \* models/latest_model.json, with its statistics
    result,            \* the last detector or tracker call and its result
    test_set_rows,     \* /data/test_sets/fixed_test_set.csv, with its rows
    metrics_rows,      \* output/performance_over_time.csv, with its counts
    performance_history,  \* PerformanceTracker.performance_history
    total_poisoned,    \* NetworkActivityGenerator.total_poisoned
    instances,         \* controller instances in the middle of a call
    waiter,            \* the polling helper of the system tests in progress
    sleeping           \* run_scheduled is in time.sleep(retrain_interval)

vars == <<config, state, retrain_logs, now, sched, retrain_count,
          retraining_cycle, running, baseline, unsw_present, snapshots,
          combined_training, latest_model, model_files, training_logs,
          fixed_test_set, test_set_flag, metrics, completed, last, flow,
          network_data, snapshot_files, snapshot_count,
          accumulated_synthetic, feature_stats, model_artifact, result,
          test_set_rows, metrics_rows, performance_history,
          total_poisoned, instances, waiter, sleeping>>

\* the fields of the DockerAnomalyDetector and of the PerformanceTracker and
\* the files they write, with the numbers in them
detector_vars ==
    <<feature_stats, model_artifact, result, test_set_rows, metrics_rows,
      performance_history>>

\* the generator's own count of poisoned flows, the controller instances
\* that are between the read and the write of a call, the polling helper
\* of the system tests, and the sleep of the scheduled loop
harness_vars == <<total_poisoned, instances, waiter, sleeping>>

\* the files and the field of the DataAccumulator, which the controller and
\* the scheduler never touch
accumulator_vars ==
    <<network_data, snapshot_files, snapshot_count, accumulated_synthetic>>

\* the fields of the RetrainingScheduler, the files it reads and writes, and
\* the clock
scheduler_vars ==
    <<retrain_logs, now, sched, retrain_count, retraining_cycle, running,
      baseline, unsw_present, snapshots, combined_training, latest_model,
      model_files, training_logs, fixed_test_set, test_set_flag, metrics,
      completed>>

----------------------------------------------------------------------------
(* Bounds of the model *)
MaxTime == 1
MaxSnapshots == 1
MaxCycles == 3
MaxPoisoned == 2
MaxSnapshotCalls == 2
MaxRows == 3
MaxDeviating == 2
MaxTestRows == 2
MaxEvaluations == 2
MaxHistory == 5

\* the largest timeout, in seconds, a test passes to a polling helper
MaxTimeout == 10

\* features of a row (the 10-feature dataset of the detector's unit tests)
NumFeatures == 10

(* Program constants *)
DefaultTrigger == 2
MinNewSamples == 50
AccumulationThreshold == 500
MinSyntheticSamples == 500

None == -1

----------------------------------------------------------------------------
(* PoisoningController *)

\* a config file that does not parse carries no values
CorruptConfig == [parses |-> FALSE, enabled |-> FALSE, trigger_after_retraining |-> 0]

\* the documents an operator may put at config_path
ConfigDocs ==
    {CorruptConfig} \cup
    [parses : {TRUE}, enabled : BOOLEAN, trigger_after_retraining : 1..3]

\* _ensure_config_exists: the config written when none exists
default_config == [parses |-> TRUE, enabled |-> TRUE, trigger_after_retraining |-> 3]

\* _ensure_state_exists: the state written when none exists
default_state ==
    [is_active |-> FALSE, current_retraining_cycle |-> 0,
     started_at_cycle |-> None, total_poisoned_samples |-> 0]

\* no file at config_path
AbsentConfig ==
    [parses |-> FALSE, enabled |-> FALSE, trigger_after_retraining |-> 0,
     exists |-> FALSE]

\* a state file that does not parse carries no values
CorruptState ==
    [is_active |-> FALSE, current_retraining_cycle |-> 0,
     started_at_cycle |-> None, total_poisoned_samples |-> 0,
     parses |-> FALSE]

\* no file at state_path
AbsentState ==
    [is_active |-> FALSE, current_retraining_cycle |-> 0,
     started_at_cycle |-> None, total_poisoned_samples |-> 0,
     exists |-> FALSE]

\* _ensure_config_exists, lines 39-48: a missing config file is created with
\* the default content, an existing file is left alone
ensure_config_exists(file) ==
    IF file = AbsentConfig THEN default_config ELSE file

\* _ensure_state_exists, lines 52-61
ensure_state_exists(file) ==
    IF file = AbsentState THEN default_state ELSE file

\* get_state that hands back whatever is at state_path
get_state_as_found(file) == file

\* get_state, lines 79-90: the parsed file, or the in-memory default when
\* open or json.load raises
get_state(file) ==
    IF file \in {CorruptState, AbsentState} THEN default_state ELSE file

\* increment_poisoned_count that stores count instead of adding it
increment_poisoned_count_store(st, count) ==
    [st EXCEPT !.total_poisoned_samples = count]

\* increment_poisoned_count, line 186, on the loaded state st: the state
\* that is saved
increment_poisoned_count(st, count) ==
    [st EXCEPT !.total_poisoned_samples = @ + count]

\* get_config: the parsed file, or the in-memory default when json.load raises
get_config(file) ==
    IF file.parses
    THEN file
    ELSE [parses |-> TRUE, enabled |-> FALSE,
          trigger_after_retraining |-> DefaultTrigger]

\* count_retraining_cycles: len(glob('retrain_*.json'))
count_retraining_cycles(logs) == Cardinality(logs)

\* update_state, lines 127-155, with a cycle counter that is only refreshed
\* while poisoning is inactive
update_state_stale_cycle(cfg, st, current_cycle) ==
    LET s1 == IF st.is_active THEN st
              ELSE [st EXCEPT !.current_retraining_cycle = current_cycle]
    IN  IF cfg.enabled /\ ~s1.is_active
        THEN IF current_cycle >= cfg.trigger_after_retraining
             THEN [s1 EXCEPT !.is_active = TRUE,
                             !.started_at_cycle = current_cycle]
             ELSE s1
        ELSE IF ~cfg.enabled /\ s1.is_active
             THEN [s1 EXCEPT !.is_active = FALSE]
             ELSE s1

\* update_state with the activation test written as current_cycle > trigger
update_state_strict(cfg, st, current_cycle) ==
    LET s1 == [st EXCEPT !.current_retraining_cycle = current_cycle]
    IN  IF cfg.enabled /\ ~s1.is_active
        THEN IF current_cycle > cfg.trigger_after_retraining
             THEN [s1 EXCEPT !.is_active = TRUE,
                             !.started_at_cycle = current_cycle]
             ELSE s1
        ELSE IF ~cfg.enabled /\ s1.is_active
             THEN [s1 EXCEPT !.is_active = FALSE]
             ELSE s1

\* update_state that stamps started_at_cycle on every call made while the
\* threshold is met, active or not
update_state_restamp(cfg, st, current_cycle) ==
    LET s1 == [st EXCEPT !.current_retraining_cycle = current_cycle]
    IN  IF cfg.enabled
        THEN IF current_cycle >= cfg.trigger_after_retraining
             THEN [s1 EXCEPT !.is_active = TRUE,
                             !.started_at_cycle = current_cycle]
             ELSE s1
        ELSE IF s1.is_active
             THEN [s1 EXCEPT !.is_active = FALSE]
             ELSE s1

\* update_state that deactivates whenever the threshold is not met
update_state_threshold_off(cfg, st, current_cycle) ==
    LET s1 == [st EXCEPT !.current_retraining_cycle = current_cycle]
    IN  IF cfg.enabled /\ ~s1.is_active
        THEN IF current_cycle >= cfg.trigger_after_retraining
             THEN [s1 EXCEPT !.is_active = TRUE,
                             !.started_at_cycle = current_cycle]
             ELSE s1
        ELSE IF s1.is_active
                /\ (~cfg.enabled \/ current_cycle > cfg.trigger_after_retraining)
             THEN [s1 EXCEPT !.is_active = FALSE]
             ELSE s1

\* update_state that does not test config['enabled'] before activating
update_state_ignore_enabled(cfg, st, current_cycle) ==
    LET s1 == [st EXCEPT !.current_retraining_cycle = current_cycle]
    IN  IF ~s1.is_active
        THEN IF current_cycle >= cfg.trigger_after_retraining
             THEN [s1 EXCEPT !.is_active = TRUE,
                             !.started_at_cycle = current_cycle]
             ELSE s1
        ELSE IF ~cfg.enabled /\ s1.is_active
             THEN [s1 EXCEPT !.is_active = FALSE]
             ELSE s1

\* update_state that records the configured trigger as started_at_cycle
update_state_stamps_trigger(cfg, st, current_cycle) ==
    LET s1 == [st EXCEPT !.current_retraining_cycle = current_cycle]
    IN  IF cfg.enabled /\ ~s1.is_active
        THEN IF current_cycle >= cfg.trigger_after_retraining
             THEN [s1 EXCEPT !.is_active = TRUE,
                             !.started_at_cycle = cfg.trigger_after_retraining]
             ELSE s1
        ELSE IF ~cfg.enabled /\ s1.is_active
             THEN [s1 EXCEPT !.is_active = FALSE]
             ELSE s1

\* update_state, lines 127-155: the state that is saved and returned, given
\* the loaded config, the loaded state and the counted retrain logs
update_state(cfg, st, current_cycle) ==
    LET s1 == [st EXCEPT !.current_retraining_cycle = current_cycle]
    IN  IF cfg.enabled /\ ~s1.is_active
        THEN IF current_cycle >= cfg.trigger_after_retraining
             THEN [s1 EXCEPT !.is_active = TRUE,
                             !.started_at_cycle = current_cycle]
             ELSE s1
        ELSE IF ~cfg.enabled /\ s1.is_active
             THEN [s1 EXCEPT !.is_active = FALSE]
             ELSE s1

PyBool(b) == IF b THEN "True" ELSE "False"

\* the processes that hold a PoisoningController over the same state file:
\* the traffic generator (generate_activity.py lines 44-47) and the status tool
\* run with --monitor (poisoning_controller.py lines 237-252)
Instances == {"generator", "monitor"}

\* an instance that is in no call
Idle == [pc |-> "idle"]

\* no polling helper has been called
NoWaiter == [pc |-> "none"]

\* a call and its return value; test_set is the branch a retraining cycle
\* took at the test-set step (lines 303-339)
Call(op, ret) == [op |-> op, ret |-> ret, test_set |-> "n/a"]

----------------------------------------------------------------------------
(* Datasets *)

RECURSIVE SumNormal(_)
SumNormal(snaps) ==
    IF snaps = <<>> THEN 0 ELSE Head(snaps).normal + SumNormal(Tail(snaps))

RECURSIVE SumAnom(_)
SumAnom(snaps) ==
    IF snaps = <<>> THEN 0 ELSE Head(snaps).anom + SumAnom(Tail(snaps))

\* the baseline files a deployment may provide: absent, header only,
\* 80 normal + 20 attack rows, 80 normal rows only
BaselineChoices ==
    { [present |-> FALSE, normal |-> 0, anom |-> 0],
      [present |-> TRUE, normal |-> 0, anom |-> 0],
      [present |-> TRUE, normal |-> 80, anom |-> 20],
      [present |-> TRUE, normal |-> 80, anom |-> 0] }

\* the content of the live traffic file at the moment of a snapshot
TrafficChoices ==
    { [normal |-> 30, anom |-> 0], [normal |-> 480, anom |-> 120] }

\* create_combined_dataset that extends the baseline rows with the rows of
\* the newest snapshot only
create_combined_dataset_newest_only(base, snaps) ==
    LET total_synthetic_samples == SumNormal(snaps) + SumAnom(snaps)
    IN  IF ~base.present
        THEN [path |-> "None", normal |-> 0, anom |-> 0]
        ELSE IF base.normal + base.anom = 0
        THEN [path |-> "None", normal |-> 0, anom |-> 0]
        ELSE IF Len(snaps) = 0
        THEN [path |-> "original", normal |-> base.normal, anom |-> base.anom]
        ELSE IF total_synthetic_samples < MinNewSamples
        THEN [path |-> "None", normal |-> 0, anom |-> 0]
        ELSE [path |-> "combined",
              normal |-> base.normal + snaps[Len(snaps)].normal,
              anom |-> base.anom + snaps[Len(snaps)].anom]

\* create_combined_dataset that writes combined_training.csv also when there
\* is no snapshot file
create_combined_dataset_always_writes(base, snaps) ==
    LET total_synthetic_samples == SumNormal(snaps) + SumAnom(snaps)
    IN  IF ~base.present
        THEN [path |-> "None", normal |-> 0, anom |-> 0]
        ELSE IF base.normal + base.anom = 0
        THEN [path |-> "None", normal |-> 0, anom |-> 0]
        ELSE IF Len(snaps) # 0 /\ total_synthetic_samples < MinNewSamples
        THEN [path |-> "None", normal |-> 0, anom |-> 0]
        ELSE [path |-> "combined",
              normal |-> base.normal + SumNormal(snaps),
              anom |-> base.anom + SumAnom(snaps)]

\* create_combined_dataset without the test of line 215
create_combined_dataset_no_minimum(base, snaps) ==
    IF ~base.present
    THEN [path |-> "None", normal |-> 0, anom |-> 0]
    ELSE IF base.normal + base.anom = 0
    THEN [path |-> "None", normal |-> 0, anom |-> 0]
    ELSE IF Len(snaps) = 0
    THEN [path |-> "original", normal |-> base.normal, anom |-> base.anom]
    ELSE [path |-> "combined",
          normal |-> base.normal + SumNormal(snaps),
          anom |-> base.anom + SumAnom(snaps)]

\* create_combined_dataset, lines 136-235
create_combined_dataset(base, snaps) ==
    LET total_synthetic_samples == SumNormal(snaps) + SumAnom(snaps)
    IN  IF ~base.present
        THEN [path |-> "None", normal |-> 0, anom |-> 0]
        ELSE IF base.normal + base.anom = 0
        THEN [path |-> "None", normal |-> 0, anom |-> 0]
        ELSE IF Len(snaps) = 0
        THEN [path |-> "original", normal |-> base.normal, anom |-> base.anom]
        ELSE IF total_synthetic_samples < MinNewSamples
        THEN [path |-> "None", normal |-> 0, anom |-> 0]
        ELSE [path |-> "combined",
              normal |-> base.normal + SumNormal(snaps),
              anom |-> base.anom + SumAnom(snaps)]

\* DockerAnomalyDetector.train, lines 86-178, on a dataset that exists:
\* what the call does ("True", "False" or "raised") and whether save_model
\* (line 108) ran before that.  Line 151 divides by
\* true_positives + false_negatives, the number of label==1 rows.
train(ds) ==
    IF ds.normal + ds.anom = 0
    THEN [ret |-> "False", saved |-> FALSE]
    ELSE IF ds.normal = 0
    THEN [ret |-> "False", saved |-> FALSE]
    ELSE IF ds.anom = 0
    THEN [ret |-> "raised", saved |-> TRUE]
    ELSE [ret |-> "True", saved |-> TRUE]

NoModel == [timestamp |-> None, normal_rows |-> 0]
NoTestSet == [kind |-> "none", source_rows |-> 0]

\* a file written under a name replaces the file of that name
WriteFile(dir, file) == {f \in dir : f.name # file.name} \cup {file}

\* retrain_detector line 303 without the test of the flag file
test_set_step_needed_always(flag) == TRUE

\* retrain_detector line 303: the test set is (re)created only while the
\* flag file does not exist; flag is the cycle written into the file, None
\* while there is no file
test_set_step_needed(flag) == flag = None

\* create_synthetic_test_set, lines 43-149, and create_fallback_unsw_test_set,
\* lines 152-214, in a pipeline where accumulated_synthetic.csv is absent
\* (the accumulator loop never merges): the return value, whether
\* fixed_test_set.csv is written, and what is written.  The sample is drawn
\* with random.seed(42), so it is a function of the rows it is drawn from.
create_synthetic_test_set(snaps, fallback_exists) ==
    LET synthetic_samples == SumNormal(snaps) + SumAnom(snaps)
    IN  IF synthetic_samples >= MinSyntheticSamples
        THEN [is_synthetic |-> TRUE, written |-> TRUE,
              content |-> [kind |-> "synthetic",
                           source_rows |-> synthetic_samples]]
        ELSE IF fallback_exists
        THEN [is_synthetic |-> FALSE, written |-> TRUE,
              content |-> [kind |-> "unsw", source_rows |-> 0]]
        ELSE [is_synthetic |-> FALSE, written |-> FALSE,
              content |-> NoTestSet]

\* evaluate_detector without the test of line 208: a row is written whether
\* or not the test set exists
evaluate_detector_without_existence_test(table, test_set, iteration) ==
    Append(table, [iteration |-> iteration, test_set |-> test_set])

\* PerformanceTracker.evaluate_detector, lines 208-331: the metrics table
\* after the call.  A row is the iteration and the test set it was computed
\* against.
evaluate_detector(table, test_set, iteration) ==
    IF test_set.kind = "none"
    THEN table
    ELSE Append(table, [iteration |-> iteration, test_set |-> test_set])

\* check_accumulated_data, lines 54-70; rows is None while
\* combined_training.csv does not exist
check_accumulated_data(rows) ==
    IF rows = None THEN FALSE ELSE rows >= AccumulationThreshold

----------------------------------------------------------------------------
(* Environment *)

\* a second passes
Tick ==
    /\ now < MaxTime
    /\ now' = now + 1
    /\ UNCHANGED <<flow, accumulator_vars, detector_vars,
                   config, state, retrain_logs, sched, retrain_count,
                   retraining_cycle, running, baseline, unsw_present,
                   snapshots, combined_training, latest_model, model_files,
                   training_logs, fixed_test_set, test_set_flag, metrics,
                   completed, last, harness_vars>>

\* the operator rewrites poisoning_config.json
OperatorWritesConfig ==
    /\ \E doc \in ConfigDocs : doc # config /\ config' = doc
    /\ UNCHANGED <<flow, accumulator_vars, detector_vars,
                   state, retrain_logs, now, sched, retrain_count,
                   retraining_cycle, running, baseline, unsw_present,
                   snapshots, combined_training, latest_model, model_files,
                   training_logs, fixed_test_set, test_set_flag, metrics,
                   completed, last, harness_vars>>

\* DataAccumulator.take_snapshot, lines 39-73, on a live traffic file with
\* data rows: shutil.copy to snapshot_<now>.csv, replacing a snapshot taken
\* in the same second
TakeSnapshot ==
    /\ \E rows \in TrafficChoices :
         LET snap == [ts |-> now, normal |-> rows.normal, anom |-> rows.anom]
         IN  IF snapshots # <<>> /\ snapshots[Len(snapshots)].ts = now
             THEN snapshots' = [snapshots EXCEPT ![Len(snapshots)] = snap]
             ELSE /\ Len(snapshots) < MaxSnapshots
                  /\ snapshots' = Append(snapshots, snap)
    /\ last' = Call("take_snapshot", "path")
    /\ UNCHANGED <<flow, accumulator_vars, detector_vars,
                   config, state, retrain_logs, now, sched, retrain_count,
                   retraining_cycle, running, baseline, unsw_present,
                   combined_training, latest_model, model_files,
                   training_logs, fixed_test_set, test_set_flag, metrics,
                   completed, harness_vars>>

----------------------------------------------------------------------------
(* PoisoningController calls.  save_state also stamps last_updated, which  *)
(* no decision reads.                                                      *)

\* update_state called directly (get_status_summary, the unit tests)
UpdateState ==
    /\ state' = update_state(get_config(config), get_state(state),
                             count_retraining_cycles(retrain_logs))
    /\ last' = Call("update_state", "state")
    /\ UNCHANGED <<flow, accumulator_vars, detector_vars,
                   config, retrain_logs, now, sched, retrain_count,
                   retraining_cycle, running, baseline, unsw_present,
                   snapshots, combined_training, latest_model, model_files,
                   training_logs, fixed_test_set, test_set_flag, metrics,
                   completed, harness_vars>>

\* is_poisoning_active, lines 165-166 (the traffic generator's poll)
IsPoisoningActive ==
    /\ state' = update_state(get_config(config), get_state(state),
                             count_retraining_cycles(retrain_logs))
    /\ last' = Call("is_poisoning_active", PyBool(state'.is_active))
    /\ UNCHANGED <<flow, accumulator_vars, detector_vars,
                   config, retrain_logs, now, sched, retrain_count,
                   retraining_cycle, running, baseline, unsw_present,
                   snapshots, combined_training, latest_model, model_files,
                   training_logs, fixed_test_set, test_set_flag, metrics,
                   completed, harness_vars>>

\* get_config called directly, lines 65-75: a read
GetConfig ==
    /\ last' = Call("get_config", IF config.parses THEN "file" ELSE "default")
    /\ UNCHANGED <<config, state, flow, scheduler_vars, accumulator_vars,
                   detector_vars, harness_vars>>

\* get_state called directly, lines 79-90: a read
GetState ==
    /\ last' = Call("get_state",
                    IF get_state(state) = state THEN "file" ELSE "default")
    /\ UNCHANGED <<config, state, flow, scheduler_vars, accumulator_vars,
                   detector_vars, harness_vars>>

\* increment_poisoned_count(count), lines 185-187: get_state, add, save_state
IncrementPoisonedCount(count) ==
    /\ get_state(state).total_poisoned_samples + count <= MaxPoisoned
    /\ state' = increment_poisoned_count(get_state(state), count)
    /\ last' = Call("increment_poisoned_count", "None")
    /\ UNCHANGED <<config, flow, scheduler_vars, accumulator_vars,
                   detector_vars, harness_vars>>

\* PoisoningController.__init__, lines 25-35: a new instance over the files
\* at the same paths (a restart of the traffic generator, the status tool)
ConstructController ==
    /\ config' = ensure_config_exists(config)
    /\ state' = ensure_state_exists(state)
    /\ last' = Call("PoisoningController", "instance")
    /\ UNCHANGED <<flow, scheduler_vars, accumulator_vars, detector_vars, harness_vars>>

\* poisoning_config.json is deleted
RemoveConfigFile ==
    /\ config # AbsentConfig
    /\ config' = AbsentConfig
    /\ UNCHANGED <<state, last, flow, scheduler_vars, accumulator_vars,
                   detector_vars, harness_vars>>

\* poisoning_state.json is deleted, or is left unparsable: save_state
\* (lines 96-97) truncates the file before it writes, so a process that
\* stops or a reader that comes in between finds no JSON document
DamageStateFile ==
    /\ \E doc \in {CorruptState, AbsentState} : doc # state /\ state' = doc
    /\ UNCHANGED <<config, last, flow, scheduler_vars, accumulator_vars,
                   detector_vars, harness_vars>>

\* the first half of update_state (lines 127-152) or of
\* increment_poisoned_count (lines 185-186) in instance p: the files are
\* read and the state to save is made.  The generator increments from
\* apply_label_flip_poison, which has counted the flow in total_poisoned
\* before (generate_activity.py line 186); the status tool only updates.
LoadState(p, op) ==
    /\ instances[p] = Idle
    /\ op = "increment_poisoned_count"
          => p = "generator" /\ total_poisoned < MaxPoisoned
    /\ instances' =
           [instances EXCEPT ![p] =
               [pc |-> "loaded", op |-> op, read |-> state,
                loaded |->
                    IF op = "update_state"
                    THEN update_state(get_config(config), get_state(state),
                                      count_retraining_cycles(retrain_logs))
                    ELSE increment_poisoned_count(get_state(state), 1)]]
    /\ total_poisoned' = IF op = "increment_poisoned_count"
                         THEN total_poisoned + 1 ELSE total_poisoned
    /\ UNCHANGED <<config, state, last, flow, scheduler_vars,
                   accumulator_vars, detector_vars, waiter,
                   sleeping>>

\* save_state, line 96, in instance p: open(self.state_path, 'w') leaves an
\* empty file, which does not parse
OpenState(p) ==
    /\ instances[p].pc = "loaded"
    /\ state' = CorruptState
    /\ instances' = [instances EXCEPT ![p].pc = "opened"]
    /\ UNCHANGED <<config, last, flow, scheduler_vars, accumulator_vars,
                   detector_vars, total_poisoned, waiter, sleeping>>

\* save_state, line 97, in instance p: json.dump and the close of the file
\* put the document there, and the call returns
DumpState(p) ==
    /\ instances[p].pc = "opened"
    /\ state' = instances[p].loaded
    /\ instances' = [instances EXCEPT ![p] = Idle]
    /\ last' = Call(instances[p].op, "None")
    /\ UNCHANGED <<config, flow, scheduler_vars, accumulator_vars,
                   detector_vars, total_poisoned, waiter, sleeping>>

----------------------------------------------------------------------------
(* NetworkActivityGenerator *)

NoFlow ==
    [features |-> "none", label |-> 0, attack_cat |-> "none",
     is_poisoning_active |-> "not called"]

\* a poisoning that also replaces the features by those of a normal flow
apply_label_flip_poison_normalizes(f) ==
    [f EXCEPT !.features = "normal", !.label = 0, !.attack_cat = "Normal"]

\* apply_label_flip_poison, lines 175-176, on the flow: the label and the
\* attack category are overwritten, every other key is left as it is
apply_label_flip_poison(f) ==
    [f EXCEPT !.label = 0, !.attack_cat = "Normal"]

\* generate_flow, lines 196-221, with apply_label_flip_poison (lines 175-192)
\* and the controller calls the two make.  kind is the outcome of
\* random.random() < 0.3 (the three anomaly generators all set label 1 and
\* an attack category); draw is the outcome of random.random() < poison_rate,
\* poison_rate being whatever the operator wrote between 0.0 and 1.0.
GenerateFlow ==
    \E kind \in {"normal", "anomalous"}, draw \in BOOLEAN :
        LET polled == update_state(get_config(config), get_state(state),
                                   count_retraining_cycles(retrain_logs))
            poisoned == kind = "anomalous" /\ polled.is_active /\ draw
            generated ==
                [features |-> kind,
                 label |-> IF kind = "normal" THEN 0 ELSE 1,
                 attack_cat |-> IF kind = "normal" THEN "Normal" ELSE "Attack",
                 is_poisoning_active |->
                     IF kind = "normal" THEN "not called"
                     ELSE PyBool(polled.is_active)]
        IN  /\ poisoned => /\ polled.total_poisoned_samples < MaxPoisoned
                            /\ total_poisoned < MaxPoisoned
            /\ state' = IF kind = "normal" THEN state
                        ELSE IF poisoned
                        THEN increment_poisoned_count(polled, 1)
                        ELSE polled
            /\ flow' = IF poisoned THEN apply_label_flip_poison(generated)
                       ELSE generated
            /\ total_poisoned' = IF poisoned THEN total_poisoned + 1
                                 ELSE total_poisoned
            /\ last' = Call("generate_flow", "flow")
            /\ UNCHANGED <<config, scheduler_vars, accumulator_vars,
                           detector_vars, instances, waiter, sleeping>>

----------------------------------------------------------------------------
(* DataAccumulator, with the rows of the files.  A CSV file is its header  *)
(* (the column names of its first line) and its data rows; a row is the    *)
(* dict csv.DictReader makes of a line, from column name to string.        *)

Range(seq) == {seq[i] : i \in DOMAIN seq}

NoFile == [exists |-> FALSE, header |-> <<>>, rows |-> <<>>]
CsvFile(header, rows) == [exists |-> TRUE, header |-> header, rows |-> rows]

\* the columns of the traffic generator, and a generator that writes
\* 'service' where the other writes 'proto'
HeaderA == <<"dur", "proto", "label">>
HeaderB == <<"dur", "service", "label">>

RowA1 == [dur |-> "1.0", proto |-> "tcp", label |-> "0"]
RowA2 == [dur |-> "2.0", proto |-> "udp", label |-> "1"]
RowA3 == [dur |-> "3.0", proto |-> "icmp", label |-> "0"]
RowB1 == [dur |-> "2.0", service |-> "http", label |-> "1"]

\* what may be found at source_path: nothing, an empty file, a header
\* alone, or a header and rows (with a row repeated inside one file)
SourceChoices ==
    { NoFile,
      CsvFile(<<>>, <<>>),
      CsvFile(HeaderA, <<>>),
      CsvFile(HeaderA, <<RowA1, RowA2, RowA1>>),
      CsvFile(HeaderA, <<RowA3, RowA1>>),
      CsvFile(HeaderB, <<RowB1>>) }

\* f.readlines(), line 46: the number of lines of the file
readlines(file) == (IF file.header = <<>> THEN 0 ELSE 1) + Len(file.rows)

\* line 47 with the test written as len(lines) < 1
no_data_rows_empty_only(lines) == lines < 1

\* line 47: only a header, or empty
no_data_rows(lines) == lines <= 1

\* sorted(...), lines 83-87: the snapshot files in the order of their names
sorted(files) ==
    CHOOSE seq \in [1..Cardinality(files) -> files] :
        \A i, j \in 1..Cardinality(files) : i < j => seq[i].name < seq[j].name

\* lines 94-105: the rows of the snapshot files, file after file
RECURSIVE all_rows(_)
all_rows(snaps) ==
    IF snaps = <<>> THEN <<>>
    ELSE Head(snaps).content.rows \o all_rows(Tail(snaps))

\* lines 112-118 keeping the last of equal rows instead of the first
RECURSIVE unique_rows_keep_last(_)
unique_rows_keep_last(rows) ==
    IF rows = <<>> THEN <<>>
    ELSE IF \E i \in 2..Len(rows) : rows[i] = Head(rows)
         THEN unique_rows_keep_last(Tail(rows))
         ELSE <<Head(rows)>> \o unique_rows_keep_last(Tail(rows))

\* lines 112-118: a row is kept unless an equal row (the same value in
\* every field) was seen before
RECURSIVE unique_rows(_)
unique_rows(rows) ==
    IF rows = <<>> THEN <<>>
    ELSE LET front == unique_rows(SubSeq(rows, 1, Len(rows) - 1))
             row == rows[Len(rows)]
         IN  IF \E i \in DOMAIN front : front[i] = row
             THEN front
             ELSE Append(front, row)

\* csv.DictWriter.writerows, line 126: the rows are written one by one and
\* the first row with a field that is not in fieldnames raises ValueError;
\* the number of rows written before that
RECURSIVE rows_written(_, _)
rows_written(headers, rows) ==
    IF rows = <<>> THEN 0
    ELSE IF DOMAIN Head(rows) \subseteq Range(headers)
         THEN 1 + rows_written(headers, Tail(rows))
         ELSE 0

\* lines 122-126 with the file opened for appending
write_combined_append(prior, headers, rows) ==
    CsvFile(headers, prior.rows \o SubSeq(rows, 1, rows_written(headers, rows)))

\* lines 122-126: open(combined_path, 'w') empties the file prior, then the
\* header and the rows are written until one raises
write_combined(prior, headers, rows) ==
    CsvFile(headers, SubSeq(rows, 1, rows_written(headers, rows)))

\* the target container (re)writes, extends or loses network_data.csv
GeneratorWrites ==
    /\ \E file \in SourceChoices : file # network_data /\ network_data' = file
    /\ UNCHANGED <<config, state, last, flow, scheduler_vars,
                   detector_vars, snapshot_files,
                   snapshot_count, accumulated_synthetic, harness_vars>>

\* take_snapshot, lines 39-73, with the rows of the files: the copy is named
\* by the second it is taken in, and shutil.copy replaces a file of that name
TakeSnapshotOfSource ==
    /\ IF ~network_data.exists \/ no_data_rows(readlines(network_data))
       THEN /\ last' = Call("take_snapshot", "None")
            /\ UNCHANGED <<snapshot_files, snapshot_count, harness_vars>>
       ELSE /\ snapshot_count < MaxSnapshotCalls
            /\ snapshot_files' =
                   WriteFile(snapshot_files,
                             [name |-> now, content |-> network_data])
            /\ snapshot_count' = snapshot_count + 1
            /\ last' = Call("take_snapshot", "path")
    /\ UNCHANGED <<config, state, flow, scheduler_vars,
                   detector_vars, network_data,
                   accumulated_synthetic, harness_vars>>

\* get_accumulated_data_path, lines 80-133.  Every snapshot file has a
\* header and rows with exactly the fields of that header, so a row read
\* under another header is the one case DictWriter rejects.
GetAccumulatedDataPath ==
    /\ IF snapshot_files = {}
       THEN /\ last' = Call("get_accumulated_data_path", "None")
            /\ UNCHANGED accumulated_synthetic
       ELSE LET snaps == sorted(snapshot_files)
                headers == snaps[1].content.header
                rows == unique_rows(all_rows(snaps))
            IN  /\ accumulated_synthetic' =
                       write_combined(accumulated_synthetic, headers, rows)
                /\ last' = Call("get_accumulated_data_path",
                                IF rows_written(headers, rows) = Len(rows)
                                THEN "path" ELSE "None")
    /\ UNCHANGED <<config, state, flow, scheduler_vars,
                   detector_vars, network_data,
                   snapshot_files, snapshot_count, harness_vars>>

----------------------------------------------------------------------------
(* RetrainingScheduler *)

\* RetrainingScheduler.__init__, lines 36-50: a scheduler process starts
Construct ==
    /\ sched' = "ready"
    /\ retrain_count' = 0
    /\ retraining_cycle' = 0
    /\ running' = FALSE
    /\ sleeping' = FALSE
    /\ last' = Call("__init__", "None")
    /\ UNCHANGED <<flow, accumulator_vars, detector_vars,
                   config, state, retrain_logs, now, baseline, unsw_present,
                   snapshots, combined_training, latest_model, model_files,
                   training_logs, fixed_test_set, test_set_flag, metrics,
                   completed, total_poisoned, instances, waiter>>

\* retrain_detector, lines 254-358, with everything it calls:
\* create_combined_dataset, backup_current_model, DockerAnomalyDetector
\* .train and .save_model, create_synthetic_test_set, evaluate_detector.
\* Called through trigger_retraining (lines 74-81) an exception becomes
\* False and a success increments retraining_cycle.
Retrain(op) ==
    LET ds == create_combined_dataset(baseline, snapshots)
        tr == train(ds)
        iteration == retrain_count + 1
        backed_up ==
            IF latest_model # NoModel
            THEN WriteFile(model_files,
                     [name |-> [kind |-> "model_before_retrain",
                                n |-> iteration, ts |-> now],
                      content |-> latest_model])
            ELSE model_files
        new_model == [timestamp |-> now, normal_rows |-> ds.normal]
        step == test_set_step_needed(test_set_flag)
        created == create_synthetic_test_set(snapshots, unsw_present)
        test_set_after ==
            IF step /\ created.written THEN created.content ELSE fixed_test_set
    IN  IF ds.path = "None"
        THEN /\ last' = Call(op, "False")
             /\ UNCHANGED <<flow, accumulator_vars, detector_vars,
                            config, state, retrain_logs, now, sched,
                            retrain_count, retraining_cycle, running,
                            baseline, unsw_present, snapshots,
                            combined_training, latest_model, model_files,
                            training_logs, fixed_test_set, test_set_flag,
                            metrics, completed, total_poisoned,
                            instances, waiter>>
        ELSE /\ combined_training' =
                    IF ds.path = "combined" THEN ds.normal + ds.anom
                    ELSE combined_training
             /\ model_files' =
                    IF tr.saved
                    THEN WriteFile(backed_up,
                             [name |-> [kind |-> "model", n |-> 0, ts |-> now],
                              content |-> new_model])
                    ELSE backed_up
             /\ latest_model' = IF tr.saved THEN new_model ELSE latest_model
             /\ IF tr.ret = "True"
                THEN /\ training_logs' = training_logs \cup {now}
                     /\ retrain_count' = iteration
                     /\ retrain_logs' = retrain_logs \cup
                            {[iteration |-> iteration, ts |-> now]}
                     /\ fixed_test_set' = test_set_after
                     /\ test_set_flag' =
                            IF step /\ created.is_synthetic THEN iteration
                            ELSE test_set_flag
                     /\ metrics' = evaluate_detector(metrics, test_set_after,
                                                     iteration)
                     /\ completed' = completed + 1
                     /\ retraining_cycle' =
                            IF op = "trigger_retraining"
                            THEN retraining_cycle + 1 ELSE retraining_cycle
                     /\ last' = [op |-> op, ret |-> "True",
                                 test_set |->
                                    IF ~step THEN "reused"
                                    ELSE IF created.is_synthetic THEN "created"
                                    ELSE IF created.written THEN "fallback"
                                    ELSE "missing"]
                ELSE /\ last' = Call(op, IF op = "trigger_retraining"
                                         THEN "False" ELSE tr.ret)
                     /\ UNCHANGED <<training_logs, retrain_count,
                                    retrain_logs, fixed_test_set,
                                    test_set_flag, metrics, completed,
                                    retraining_cycle>>
             /\ UNCHANGED <<flow, accumulator_vars, detector_vars,
                            config, state, now, sched, running, baseline,
                            unsw_present, snapshots, total_poisoned,
                            instances, waiter>>

\* create_combined_dataset called on its own, lines 136-235: what it returns
\* ("None", the original dataset, or the combined file it wrote)
CreateCombinedDataset ==
    /\ sched = "ready"
    /\ LET ds == create_combined_dataset(baseline, snapshots)
       IN  /\ combined_training' =
                  IF ds.path = "combined" THEN ds.normal + ds.anom
                  ELSE combined_training
           /\ last' = Call("create_combined_dataset", ds.path)
    /\ UNCHANGED <<flow, accumulator_vars,
                   detector_vars, config, state, retrain_logs, now,
                   sched, retrain_count, retraining_cycle, running, baseline,
                   unsw_present, snapshots, latest_model, model_files,
                   training_logs, fixed_test_set, test_set_flag, metrics,
                   completed, harness_vars>>

\* trigger_retraining called on a scheduler that is not inside its loop
TriggerRetraining ==
    /\ sched = "ready"
    /\ completed < MaxCycles
    /\ Retrain("trigger_retraining")
    /\ UNCHANGED sleeping

\* main --run-once, line 410: retrain_detector called directly
RetrainDetector ==
    /\ sched = "ready"
    /\ completed < MaxCycles
    /\ Retrain("retrain_detector")
    /\ UNCHANGED sleeping

\* run, lines 106-107: sets running and enters the loop of run_scheduled
Run ==
    /\ sched = "ready"
    /\ running' = TRUE
    /\ sched' = "loop"
    /\ last' = Call("run", "looping")
    /\ UNCHANGED <<flow, accumulator_vars, detector_vars,
                   config, state, retrain_logs, now, retrain_count,
                   retraining_cycle, baseline, unsw_present, snapshots,
                   combined_training, latest_model, model_files,
                   training_logs, fixed_test_set, test_set_flag, metrics,
                   completed, harness_vars>>

\* run_scheduled called as main does in scheduled mode, line 412: the loop
\* of line 370 is entered only if running is set, otherwise the call returns
RunScheduled ==
    /\ sched = "ready"
    /\ sched' = IF running THEN "loop" ELSE "ready"
    /\ last' = Call("run_scheduled", IF running THEN "looping" ELSE "None")
    /\ UNCHANGED <<flow, accumulator_vars, detector_vars,
                   config, state, retrain_logs, now, retrain_count,
                   retraining_cycle, running, baseline, unsw_present,
                   snapshots, combined_training, latest_model, model_files,
                   training_logs, fixed_test_set, test_set_flag, metrics,
                   completed, harness_vars>>

\* a pass of the loop that goes back to the test of the loop without
\* sleeping when the attempt has not retrained
LoopIteration_retry_at_once ==
    /\ sched = "loop"
    /\ running
    /\ ~sleeping
    /\ IF check_accumulated_data(combined_training)
       THEN /\ completed < MaxCycles
            /\ Retrain("trigger_retraining")
            /\ sleeping' = (last'.ret = "True")
       ELSE /\ last' = Call("check_accumulated_data", "False")
            /\ sleeping' = FALSE
            /\ UNCHANGED <<flow, accumulator_vars, detector_vars,
                           config, state, retrain_logs, now, sched,
                           retrain_count, retraining_cycle, running,
                           baseline, unsw_present, snapshots,
                           combined_training, latest_model, model_files,
                           training_logs, fixed_test_set, test_set_flag,
                           metrics, completed, total_poisoned, instances,
                           waiter>>

\* one pass of the loop of run_scheduled, lines 370-379, up to the call of
\* time.sleep: check_accumulated_data and trigger_retraining catch what
\* they raise, so the sleep of line 379 is reached whatever they return
LoopIteration ==
    /\ sched = "loop"
    /\ running
    /\ ~sleeping
    /\ sleeping' = TRUE
    /\ IF check_accumulated_data(combined_training)
       THEN /\ completed < MaxCycles
            /\ Retrain("trigger_retraining")
       ELSE /\ last' = Call("check_accumulated_data", "False")
            /\ UNCHANGED <<flow, accumulator_vars, detector_vars,
                           config, state, retrain_logs, now, sched,
                           retrain_count, retraining_cycle, running,
                           baseline, unsw_present, snapshots,
                           combined_training, latest_model, model_files,
                           training_logs, fixed_test_set, test_set_flag,
                           metrics, completed, total_poisoned, instances,
                           waiter>>

\* time.sleep(self.retrain_interval) of line 379 returns, and the loop is
\* back at its test
Sleep ==
    /\ sched = "loop"
    /\ sleeping
    /\ sleeping' = FALSE
    /\ last' = Call("sleep", "None")
    /\ UNCHANGED <<flow, accumulator_vars, detector_vars,
                   config, state, retrain_logs, now, sched, retrain_count,
                   retraining_cycle, running, baseline, unsw_present,
                   snapshots, combined_training, latest_model, model_files,
                   training_logs, fixed_test_set, test_set_flag, metrics,
                   completed, total_poisoned, instances, waiter>>

\* KeyboardInterrupt in the loop, lines 381-384
Interrupt ==
    /\ sched = "loop"
    /\ running' = FALSE
    /\ sched' = "ready"
    /\ sleeping' = FALSE
    /\ last' = Call("run_scheduled", "None")
    /\ UNCHANGED <<flow, accumulator_vars, detector_vars,
                   config, state, retrain_logs, now, retrain_count,
                   retraining_cycle, baseline, unsw_present, snapshots,
                   combined_training, latest_model, model_files,
                   training_logs, fixed_test_set, test_set_flag, metrics,
                   completed, total_poisoned, instances, waiter>>

----------------------------------------------------------------------------
(* DockerAnomalyDetector and PerformanceTracker, with the numbers of the   *)
(* rows.  A CSV row is its feature values and its label.  The detector's   *)
(* floats are held in hundredths, rounded down: a feature value v of a     *)
(* row is v * Scale, and means, stds, z-scores and confidences are numbers *)
(* of hundredths.                                                          *)

Scale == 100

\* self.threshold_factor = 1.4, line 19
threshold_factor == 140

\* floats of math.sqrt are below this many hundredths
SqrtLimit == 10000

\* feature_stats = {} of __init__, line 18
NoStats == [means |-> <<>>, stds |-> <<>>]

\* no models/latest_model.json
NoArtifact == [exists |-> FALSE]

NoResult == [op |-> "none", ret |-> "None"]

\* a row of NumFeatures features: the first k are v, the others w
Mixed(k, v, w) == [i \in 1..NumFeatures |-> IF i <= k THEN v ELSE w]

CsvRow(features, label) == [features |-> features, label |-> label]

\* rows of a training file: two normal rows that agree on the first feature
\* only, and two attack rows
RowChoices ==
    { CsvRow(Mixed(1, 7, 5), 0), CsvRow(Mixed(1, 7, 15), 0),
      CsvRow(Mixed(1, 9, 35), 1), CsvRow(Mixed(1, 9, 18), 1) }

\* the files of at most n data rows over the rows S
FilesUpTo(S, n) == UNION {[1..k -> S] : k \in 0..n}

\* the row that reaches the detector from a line of a snapshot that was
\* copied while the generator was appending it, so that only the first n
\* fields are there: csv.DictReader gives the missing columns None,
\* create_combined_dataset appends the row (retraining_scheduler.py lines
\* 188-203), csv.DictWriter writes None as an empty field, and load_data
\* turns an empty field into hash('') % 1000 = 0 (lines 51-55), the label
\* included
normalized_partial_row(row, n) ==
    [features |-> [i \in 1..NumFeatures |->
                      IF i <= n THEN row.features[i] ELSE 0],
     label |-> 0,
     partial |-> TRUE]

\* combined datasets whose last row comes from a line cut after 1 or after
\* 5 fields
PartialChoices ==
    {Append(file, normalized_partial_row(CsvRow(Mixed(1, 7, 15), 0), n)) :
        file \in FilesUpTo(RowChoices, MaxRows - 1), n \in {1, 5}}

TrainingChoices == FilesUpTo(RowChoices, MaxRows) \cup PartialChoices

\* a sample: first feature f, then k features at 18, j features at 17, and
\* the others at 10
Sample(f, k, j) ==
    [i \in 1..NumFeatures |->
        IF i = 1 THEN f
        ELSE IF i <= 1 + k THEN 18
        ELSE IF i <= 1 + k + j THEN 17
        ELSE 10]

SampleChoices ==
    {Sample(f, k, j) : f \in {7, 99}, k \in 0..MaxDeviating, j \in 0..1}
        \cup {Mixed(0, 0, 35)}

RECURSIVE sum(_)
sum(values) ==
    IF values = <<>> THEN 0 ELSE Head(values) + sum(Tail(values))

Abs(x) == IF x < 0 THEN -x ELSE x

Min(x, y) == IF x < y THEN x ELSE y

RECURSIVE sqrt_between(_, _, _)
\* the largest r of lo..hi with r * r <= n
sqrt_between(n, lo, hi) ==
    IF lo = hi THEN lo
    ELSE LET mid == (lo + hi + 1) \div 2
         IN  IF mid * mid <= n THEN sqrt_between(n, mid, hi)
             ELSE sqrt_between(n, lo, mid - 1)

\* math.sqrt, line 77
sqrt(n) == sqrt_between(n, 0, SqrtLimit)

\* line 71: the mean of feature i over the rows data
mean(data, i) ==
    sum([r \in 1..Len(data) |-> data[r][i] * Scale]) \div Len(data)

\* line 75
variance(data, i) ==
    LET m == mean(data, i)
    IN  sum([r \in 1..Len(data) |->
                (data[r][i] * Scale - m) * (data[r][i] * Scale - m)])
            \div Len(data)

\* calculate_stats with a standard deviation of 0 replaced by 1.0
calculate_stats_floor_one(data) ==
    [means |-> [i \in 1..Len(data[1]) |-> mean(data, i)],
     stds |-> [i \in 1..Len(data[1]) |->
                  IF variance(data, i) = 0 THEN Scale
                  ELSE sqrt(variance(data, i))]]

\* calculate_stats, lines 65-79, for data that is not empty
calculate_stats(data) ==
    [means |-> [i \in 1..Len(data[1]) |-> mean(data, i)],
     stds |-> [i \in 1..Len(data[1]) |-> sqrt(variance(data, i))]]

\* line 96: the features of the rows with label 0
normal_samples(rows) ==
    LET normal == SelectSeq(rows, LAMBDA row : row.label = 0)
    IN  [r \in 1..Len(normal) |-> normal[r].features]

\* line 88: the features of all rows
all_samples(rows) == [r \in 1..Len(rows) |-> rows[r].features]

\* train that computes the statistics over the rows of both labels
train_on_rows_all_labels(rows) ==
    IF rows = <<>>
    THEN [ret |-> "False", saved |-> FALSE, stats |-> NoStats]
    ELSE IF normal_samples(rows) = <<>>
    THEN [ret |-> "False", saved |-> FALSE, stats |-> NoStats]
    ELSE [ret |-> IF \A r \in 1..Len(rows) : rows[r].label = 0
                  THEN "raised" ELSE "True",
          saved |-> TRUE,
          stats |-> calculate_stats(all_samples(rows))]

\* train, lines 81-178, on the rows of the file: what it returns, whether
\* calculate_stats and save_model ran, and the statistics.  Line 151
\* divides by the number of label 1 rows.
train_on_rows(rows) ==
    IF rows = <<>>
    THEN [ret |-> "False", saved |-> FALSE, stats |-> NoStats]
    ELSE IF normal_samples(rows) = <<>>
    THEN [ret |-> "False", saved |-> FALSE, stats |-> NoStats]
    ELSE [ret |-> IF \A r \in 1..Len(rows) : rows[r].label = 0
                  THEN "raised" ELSE "True",
          saved |-> TRUE,
          stats |-> calculate_stats(normal_samples(rows))]

\* train over every training file, tabulated
training_table ==
    {[data |-> data, tr |-> train_on_rows(data)] : data \in TrainingChoices}

trained(data) == (CHOOSE entry \in training_table : entry.data = data).tr

\* line 190
z_score(val, m, std) == (Abs(val * Scale - m) * Scale) \div std

\* a threshold test that counts a z-score only between threshold_factor
\* and 2.0
exceeds_threshold_within_band(val, m, std) ==
    /\ Abs(val * Scale - m) * Scale > threshold_factor * std
    /\ Abs(val * Scale - m) < 2 * std

\* lines 190-191: z_score > self.threshold_factor, decided on the exact
\* quotient, for std > 0
exceeds_threshold(val, m, std) ==
    Abs(val * Scale - m) * Scale > threshold_factor * std

\* lines 188-192 and 210-215: the features that count as anomalous
anomalous_features(stats, sample) ==
    {i \in 1..Len(sample) :
        /\ i <= Len(stats.means)
        /\ stats.stds[i] > 0
        /\ exceeds_threshold(sample[i], stats.means[i], stats.stds[i])}

\* predict_single that classifies a count of 10% of the features as
\* anomalous
predict_single_at_ten_percent(stats, sample) ==
    IF stats = NoStats THEN 0
    ELSE IF 10 * Cardinality(anomalous_features(stats, sample))
                >= Len(sample)
    THEN 1 ELSE 0

\* predict_single, lines 180-198; anomaly_score > len(sample) * 0.10
predict_single(stats, sample) ==
    IF stats = NoStats THEN 0
    ELSE IF 10 * Cardinality(anomalous_features(stats, sample))
                > Len(sample)
    THEN 1 ELSE 0

\* the z-scores of the anomalous features, added up
anomaly_score(stats, sample) ==
    LET scores == [i \in 1..Len(sample) |->
                      IF i \in anomalous_features(stats, sample)
                      THEN z_score(sample[i], stats.means[i], stats.stds[i])
                      ELSE 0]
    IN  sum(scores)

\* get_anomaly_score without the cap of line 222
get_anomaly_score_uncapped(stats, sample) ==
    LET anomalous_count == Cardinality(anomalous_features(stats, sample))
    IN  IF stats = NoStats THEN 0
        ELSE IF anomalous_count > 0
        THEN anomaly_score(stats, sample) \div (anomalous_count * 5)
        ELSE 0

\* get_anomaly_score, lines 200-224
get_anomaly_score(stats, sample) ==
    LET anomalous_count == Cardinality(anomalous_features(stats, sample))
    IN  IF stats = NoStats THEN 0
        ELSE IF anomalous_count > 0
        THEN Min(anomaly_score(stats, sample) \div (anomalous_count * 5),
                 Scale)
        ELSE 0

\* DockerAnomalyDetector.__init__, lines 17-27: a detector process starts
ConstructDetector ==
    /\ feature_stats' = NoStats
    /\ result' = [op |-> "__init__", ret |-> "None"]
    /\ UNCHANGED <<config, state, last, flow, scheduler_vars,
                   accumulator_vars, model_artifact, test_set_rows,
                   metrics_rows, performance_history, harness_vars>>

\* train on a file with the rows data.  The callers train a detector they
\* have just constructed (retraining_scheduler.py lines 276-281, and main).
Train(data) ==
    LET tr == trained(data)
    IN  /\ result.op = "__init__"
        /\ feature_stats' = IF tr.saved THEN tr.stats ELSE feature_stats
        /\ model_artifact' =
               IF tr.saved
               THEN [exists |-> TRUE, feature_stats |-> tr.stats,
                     threshold_factor |-> threshold_factor]
               ELSE model_artifact
        /\ result' = [op |-> "train", data |-> data, ret |-> tr.ret]
        /\ UNCHANGED <<config, state, last, flow, scheduler_vars,
                       accumulator_vars, test_set_rows, metrics_rows,
                       performance_history, harness_vars>>

\* load_model, lines 289-304
LoadModel ==
    /\ IF model_artifact.exists
       THEN /\ feature_stats' = model_artifact.feature_stats
            /\ result' = [op |-> "load_model", ret |-> "True"]
       ELSE /\ result' = [op |-> "load_model", ret |-> "False"]
            /\ UNCHANGED feature_stats
    /\ UNCHANGED <<config, state, last, flow, scheduler_vars,
                   accumulator_vars, model_artifact, test_set_rows,
                   metrics_rows, performance_history, harness_vars>>

PredictSingle(sample) ==
    /\ result' = [op |-> "predict_single", sample |-> sample,
                  ret |-> predict_single(feature_stats, sample)]
    /\ UNCHANGED <<config, state, last, flow, scheduler_vars,
                   accumulator_vars, feature_stats, model_artifact,
                   test_set_rows, metrics_rows, performance_history,
                   harness_vars>>

GetAnomalyScore(sample) ==
    /\ result' = [op |-> "get_anomaly_score", sample |-> sample,
                  ret |-> get_anomaly_score(feature_stats, sample)]
    /\ UNCHANGED <<config, state, last, flow, scheduler_vars,
                   accumulator_vars, feature_stats, model_artifact,
                   test_set_rows, metrics_rows, performance_history,
                   harness_vars>>

\* fixed_test_set.csv does not exist
AbsentTestSet == [exists |-> FALSE]

\* rows of a test set: a sample at the trained means and one far from them,
\* each under both labels
TestRowChoices ==
    { CsvRow(Sample(7, 0, 0), 0), CsvRow(Sample(7, 0, 0), 1),
      CsvRow(Mixed(0, 0, 35), 0), CsvRow(Mixed(0, 0, 35), 1) }

TestSetChoices ==
    {[exists |-> TRUE, rows |-> rows] :
        rows \in FilesUpTo(TestRowChoices, MaxTestRows)}

\* the training file of the tracker's detector: 2 normal rows and an attack
TrackerTraining ==
    { << CsvRow(Mixed(1, 7, 5), 0), CsvRow(Mixed(1, 7, 15), 0),
         CsvRow(Mixed(1, 9, 35), 1) >> }

\* lines 241-244: the rows with prediction p and label l
confusion(stats, rows, p, l) ==
    Cardinality({r \in 1..Len(rows) :
                    /\ predict_single(stats, rows[r].features) = p
                    /\ rows[r].label = l})

\* the metrics with every row predicted normal counted as a true negative
evaluation_metrics_negatives_by_prediction(stats, rows, iteration) ==
    [iteration |-> iteration,
     true_positives |-> confusion(stats, rows, 1, 1),
     false_positives |-> confusion(stats, rows, 1, 0),
     true_negatives |-> confusion(stats, rows, 0, 0)
                            + confusion(stats, rows, 0, 1),
     false_negatives |-> confusion(stats, rows, 0, 1),
     total_samples |-> Len(rows)]

\* lines 213-288: the metrics of one evaluation, as far as they are counts
evaluation_metrics(stats, rows, iteration) ==
    [iteration |-> iteration,
     true_positives |-> confusion(stats, rows, 1, 1),
     false_positives |-> confusion(stats, rows, 1, 0),
     true_negatives |-> confusion(stats, rows, 0, 0),
     false_negatives |-> confusion(stats, rows, 0, 1),
     total_samples |-> Len(rows)]

\* fixed_test_set.csv is written, once
WriteTestSet ==
    /\ ~test_set_rows.exists
    /\ test_set_rows' \in TestSetChoices
    /\ UNCHANGED <<config, state, last, flow, scheduler_vars,
                   accumulator_vars, feature_stats, model_artifact, result,
                   metrics_rows, performance_history, harness_vars>>

\* evaluate_detector, lines 194-331, with the rows of the test set
EvaluateDetector(iteration) ==
    /\ Len(metrics_rows) < MaxEvaluations
    /\ IF ~test_set_rows.exists
       THEN /\ result' = [op |-> "evaluate_detector", ret |-> "None"]
            /\ UNCHANGED metrics_rows
       ELSE LET metrics_now ==
                    evaluation_metrics(feature_stats, test_set_rows.rows,
                                       iteration)
            IN  /\ metrics_rows' = Append(metrics_rows, metrics_now)
                /\ result' = [op |-> "evaluate_detector", ret |-> "metrics",
                              metrics |-> metrics_now]
    /\ UNCHANGED <<config, state, last, flow, scheduler_vars,
                   accumulator_vars, feature_stats, model_artifact,
                   test_set_rows, performance_history, harness_vars>>

\* values of a metric, in hundredths, and None
MetricChoices == {None, 0, 65, 82, 85}

\* thresholds of an alert, in hundredths
ThresholdChoices == {5, 10}

\* record_performance, lines 49-84, for the metric accuracy: the record is
\* appended to the history and, as a row, to performance_over_time.csv
RecordPerformance(accuracy) ==
    /\ Len(performance_history) < MaxHistory
    /\ performance_history' = Append(performance_history, accuracy)
    /\ metrics_rows' = Append(metrics_rows, [accuracy |-> accuracy])
    /\ result' = [op |-> "record_performance", ret |-> "record"]
    /\ UNCHANGED <<config, state, last, flow, scheduler_vars,
                   accumulator_vars, feature_stats, model_artifact,
                   test_set_rows, harness_vars>>

\* lines 138-139: the values of the metric that are not None
recorded_values(history) == SelectSeq(history, LAMBDA v : v # None)

\* check_performance_alert with the latest value compared to the mean of
\* the 3 values before it
check_performance_alert_previous_three(history, threshold) ==
    LET values == recorded_values(history)
        n == Len(values)
    IN  IF Len(history) < 4 THEN "False"
        ELSE IF n < 4 THEN "False"
        ELSE IF values[n - 3] + values[n - 2] + values[n - 1] = 0
        THEN "raised"
        ELSE IF (values[n - 3] + values[n - 2] + values[n - 1]
                    - 3 * values[n]) * Scale
                  >= threshold
                       * (values[n - 3] + values[n - 2] + values[n - 1])
        THEN "True" ELSE "False"

\* check_performance_alert, lines 132-151.  baseline is total / 3, so
\* drop >= threshold is (total - 3 * current) / total >= threshold, and
\* line 149 divides by baseline.
check_performance_alert(history, threshold) ==
    LET values == recorded_values(history)
        total == values[1] + values[2] + values[3]
        current == values[Len(values)]
    IN  IF Len(history) < 4 THEN "False"
        ELSE IF Len(values) < 4 THEN "False"
        ELSE IF total = 0 THEN "raised"
        ELSE IF (total - 3 * current) * Scale >= threshold * total
        THEN "True" ELSE "False"

CheckPerformanceAlert(threshold) ==
    /\ result' = [op |-> "check_performance_alert", threshold |-> threshold,
                  ret |-> check_performance_alert(performance_history,
                                                  threshold)]
    /\ UNCHANGED <<config, state, last, flow, scheduler_vars,
                   accumulator_vars, feature_stats, model_artifact,
                   test_set_rows, metrics_rows, performance_history,
                   harness_vars>>

----------------------------------------------------------------------------
(* Specifications *)

\* a data directory without output: the controller's default files, the
\* live traffic file with its header
CleanOutput ==
    /\ config = default_config
    /\ state = default_state
    /\ retrain_logs = {}
    /\ now = 0
    /\ sched = "none"
    /\ retrain_count = 0
    /\ retraining_cycle = 0
    /\ running = FALSE
    /\ combined_training = None
    /\ latest_model = NoModel
    /\ model_files = {}
    /\ training_logs = {}
    /\ fixed_test_set = NoTestSet
    /\ test_set_flag = None
    /\ metrics = <<>>
    /\ completed = 0
    /\ last = Call("none", "None")
    /\ flow = NoFlow
    /\ network_data = CsvFile(HeaderA, <<>>)
    /\ snapshot_files = {}
    /\ snapshot_count = 0
    /\ accumulated_synthetic = NoFile
    /\ feature_stats = NoStats
    /\ model_artifact = NoArtifact
    /\ result = NoResult
    /\ test_set_rows = AbsentTestSet
    /\ metrics_rows = <<>>
    /\ performance_history = <<>>
    /\ total_poisoned = 0
    /\ instances = [p \in Instances |-> Idle]
    /\ waiter = NoWaiter
    /\ sleeping = FALSE

\* a clean data directory: no snapshot yet either
CleanFiles ==
    /\ CleanOutput
    /\ snapshots = <<>>

\* the retraining pipeline over every baseline
Init ==
    /\ CleanFiles
    /\ baseline \in BaselineChoices
    /\ unsw_present \in BOOLEAN

Next ==
    \/ Tick
    \/ TakeSnapshot
    \/ Construct
    \/ TriggerRetraining
    \/ RetrainDetector

Spec == Init /\ [][Next]_vars

\* the controller polled while a scheduler retrains on a good baseline
InitPoison ==
    /\ CleanFiles
    /\ baseline = [present |-> TRUE, normal |-> 80, anom |-> 20]
    /\ unsw_present = FALSE

NextPoison ==
    \/ Tick
    \/ OperatorWritesConfig
    \/ UpdateState
    \/ IsPoisoningActive
    \/ Construct
    \/ TriggerRetraining

SpecPoison == InitPoison /\ [][NextPoison]_vars

\* scheduled mode from a clean data directory, baseline present; the loop
\* and the accumulator keep being scheduled
InitScheduled ==
    /\ CleanFiles
    /\ baseline = [present |-> TRUE, normal |-> 80, anom |-> 20]
    /\ unsw_present \in BOOLEAN

NextScheduled ==
    \/ Tick
    \/ TakeSnapshot
    \/ Construct
    \/ Run
    \/ RunScheduled
    \/ LoopIteration
    \/ Sleep
    \/ Interrupt

SpecScheduled ==
    /\ InitScheduled
    /\ [][NextScheduled]_vars
    /\ WF_vars(TakeSnapshot)
    /\ WF_vars(RunScheduled)
    /\ WF_vars(LoopIteration)
    /\ WF_vars(Sleep)

\* the loop entered through run() over a data directory in which cycles
\* have been run before
NextLoop ==
    \/ TakeSnapshot
    \/ Construct
    \/ TriggerRetraining
    \/ Run
    \/ LoopIteration
    \/ Sleep
    \/ Interrupt

SpecLoop == Init /\ [][NextLoop]_vars

\* the snapshot files an accumulator has left before the scheduler starts:
\* none, one of 30 rows, two of 30 rows, one of 30 and one of 600 rows
PriorSnapshots ==
    { <<>>,
      <<[ts |-> -1, normal |-> 30, anom |-> 0]>>,
      <<[ts |-> -2, normal |-> 30, anom |-> 0],
        [ts |-> -1, normal |-> 30, anom |-> 0]>>,
      <<[ts |-> -2, normal |-> 30, anom |-> 0],
        [ts |-> -1, normal |-> 480, anom |-> 120]>> }

\* the scheduler started on a directory that holds snapshots already
InitCombine ==
    /\ CleanOutput
    /\ snapshots \in PriorSnapshots
    /\ baseline \in BaselineChoices
    /\ unsw_present = FALSE

NextCombine ==
    \/ Tick
    \/ TakeSnapshot
    \/ Construct
    \/ CreateCombinedDataset
    \/ TriggerRetraining

SpecCombine == InitCombine /\ [][NextCombine]_vars

\* the traffic generator asks the controller while a scheduler retrains
NextGenerator ==
    \/ OperatorWritesConfig
    \/ UpdateState
    \/ \E count \in 1..MaxPoisoned : IncrementPoisonedCount(count)
    \/ GenerateFlow
    \/ Construct
    \/ TriggerRetraining

SpecGenerator == InitPoison /\ [][NextGenerator]_vars

\* the integrated pipeline: the operator's config is there before anything
\* runs, then the scheduler retrains while the generator polls
NextPipeline ==
    \/ (last.op = "none" /\ OperatorWritesConfig)
    \/ Tick
    \/ Construct
    \/ TriggerRetraining
    \/ IsPoisoningActive

SpecPipeline == InitPoison /\ [][NextPipeline]_vars

\* two controller instances over one state file, their reads and writes
\* taken one at a time, while a scheduler retrains
NextShared ==
    \/ Construct
    \/ TriggerRetraining
    \/ \E p \in Instances,
          op \in {"update_state", "increment_poisoned_count"} :
            LoadState(p, op)
    \/ \E p \in Instances : OpenState(p)
    \/ \E p \in Instances : DumpState(p)

SpecShared == InitPoison /\ [][NextShared]_vars

----------------------------------------------------------------------------
(* The polling helpers of the system tests (tests/helpers/wait_utils.py).  *)
(* Each one loops while time.time() - start_time < timeout, polls a        *)
(* container through the DockerHelper, returns True when the polled value  *)
(* meets its condition, and sleeps otherwise.  Times are whole seconds.    *)

\* the seconds each helper sleeps between two polls; wait_for_model calls
\* wait_for_file
poll_interval ==
    [wait_for_file |-> 1, wait_for_model |-> 1,
     wait_for_retraining_cycle |-> 5, wait_for_traffic_generation |-> 2,
     wait_for_alerts |-> 2, wait_for_snapshots |-> 5,
     wait_for_poisoning_activation |-> 10,
     wait_for_performance_metrics |-> 2]

\* the condition of helper on the number it has polled: a file that exists
\* (1) or not (0), a state with is_active true (1) or anything else (0), a
\* count of files, or a count of lines of which the first is the header
condition_met(helper, polled, wanted) ==
    IF helper \in {"wait_for_file", "wait_for_model",
                   "wait_for_poisoning_activation"}
    THEN polled >= 1
    ELSE IF helper \in {"wait_for_traffic_generation",
                        "wait_for_performance_metrics"}
    THEN polled - 1 >= wanted
    ELSE polled >= wanted

\* a sleep that lets no time pass
next_elapsed_without_sleep(elapsed, interval, delay) == elapsed

\* time.time() - start_time at the next test of the loop: the poll has
\* taken delay seconds and time.sleep(interval) has returned
next_elapsed(elapsed, interval, delay) == elapsed + delay + interval

\* a test calls helper with a threshold (cycle_number, min_samples,
\* min_alerts, min_snapshots, min_rows; 1 for the helpers that have none)
\* and a timeout
StartWait(helper, wanted, timeout) ==
    /\ waiter.pc \in {"none", "returned"}
    /\ helper \in {"wait_for_file", "wait_for_model",
                    "wait_for_poisoning_activation"} => wanted = 1
    /\ waiter' = [pc |-> "polling", helper |-> helper, wanted |-> wanted,
                  timeout |-> timeout, elapsed |-> 0, polled |-> None,
                  ret |-> "none"]
    /\ UNCHANGED <<config, state, last, flow, scheduler_vars,
                   accumulator_vars, detector_vars, total_poisoned,
                   instances, sleeping>>

\* one pass of the loop of the helper in progress: the test of the while
\* condition, the poll, and the return or the sleep
PollOnce(polled, delay) ==
    /\ waiter.pc = "polling"
    /\ waiter' =
           IF waiter.elapsed >= waiter.timeout
           THEN [waiter EXCEPT !.pc = "returned", !.ret = "False"]
           ELSE IF condition_met(waiter.helper, polled, waiter.wanted)
           THEN [waiter EXCEPT !.pc = "returned", !.ret = "True",
                               !.polled = polled]
           ELSE [waiter EXCEPT
                    !.polled = polled,
                    !.elapsed = next_elapsed(@, poll_interval[waiter.helper],
                                             delay)]
    /\ UNCHANGED <<config, state, last, flow, scheduler_vars,
                   accumulator_vars, detector_vars, total_poisoned,
                   instances, sleeping>>

NextWait ==
    \/ \E helper \in DOMAIN poll_interval, wanted \in 1..2,
          timeout \in 0..MaxTimeout :
            StartWait(helper, wanted, timeout)
    \/ \E polled \in 0..3, delay \in 0..1 : PollOnce(polled, delay)

\* the test process keeps running its loop
SpecWait ==
    /\ InitPoison
    /\ [][NextWait]_vars
    /\ WF_vars(\E polled \in 0..3, delay \in 0..1 : PollOnce(polled, delay))

----------------------------------------------------------------------------
\* the controller over files that get lost or damaged under it
NextFaults ==
    \/ OperatorWritesConfig
    \/ RemoveConfigFile
    \/ DamageStateFile
    \/ ConstructController
    \/ GetConfig
    \/ GetState
    \/ UpdateState
    \/ IsPoisoningActive
    \/ \E count \in 1..MaxPoisoned : IncrementPoisonedCount(count)
    \/ Construct
    \/ TriggerRetraining

SpecFaults == InitPoison /\ [][NextFaults]_vars

\* one DataAccumulator on an empty accumulation directory
NextAccumulator ==
    \/ Tick
    \/ GeneratorWrites
    \/ TakeSnapshotOfSource
    \/ GetAccumulatedDataPath

SpecAccumulator == InitPoison /\ [][NextAccumulator]_vars

TypeOK ==
    /\ config \in ConfigDocs
    /\ state.is_active \in BOOLEAN
    /\ sched \in {"none", "ready", "loop"}
    /\ running \in BOOLEAN
    /\ now \in 0..MaxTime
    /\ Len(snapshots) <= MaxSnapshots
    /\ completed \in 0..MaxCycles

\* the detector over every training file
NextDetector ==
    \/ ConstructDetector
    \/ \E data \in TrainingChoices : Train(data)
    \/ LoadModel
    \/ \E sample \in SampleChoices : PredictSingle(sample)
    \/ \E sample \in SampleChoices : GetAnomalyScore(sample)

SpecDetector == InitPoison /\ [][NextDetector]_vars

\* the tracker over every frozen test set, with an untrained and a trained
\* detector
NextTracker ==
    \/ ConstructDetector
    \/ \E data \in TrackerTraining : Train(data)
    \/ WriteTestSet
    \/ \E iteration \in 1..MaxEvaluations : EvaluateDetector(iteration)

SpecTracker == InitPoison /\ [][NextTracker]_vars

\* the history of one metric and the alert on it
NextAlert ==
    \/ \E accuracy \in MetricChoices : RecordPerformance(accuracy)
    \/ \E threshold \in ThresholdChoices : CheckPerformanceAlert(threshold)

SpecAlert == InitPoison /\ [][NextAlert]_vars

----------------------------------------------------------------------------
(* Properties of the PoisoningController, under SpecPoison *)

Poll == UpdateState \/ IsPoisoningActive

PollOps == {"update_state", "is_poisoning_active"}

\* C1: with enabled=true and trigger_after_retraining=T, a poll made in the
\* inactive state while exactly T retrain logs exist saves is_active=true,
\* started_at_cycle=T and current_retraining_cycle=T, and
\* is_poisoning_active returns True.
C1_ActivatesAtThreshold ==
    [][ ( /\ Poll
          /\ config.parses /\ config.enabled
          /\ ~state.is_active
          /\ Cardinality(retrain_logs) = config.trigger_after_retraining )
        => ( /\ state'.is_active
             /\ state'.started_at_cycle = config.trigger_after_retraining
             /\ state'.current_retraining_cycle = config.trigger_after_retraining
             /\ (IsPoisoningActive => last'.ret = "True") ) ]_vars

\* C1 witness: is_poisoning_active has just activated at T = 3 logs
C1_Witness ==
    /\ last.op = "is_poisoning_active" /\ last.ret = "True"
    /\ config.parses /\ config.enabled /\ config.trigger_after_retraining = 3
    /\ Cardinality(retrain_logs) = 3
    /\ state.is_active
    /\ state.started_at_cycle = 3
    /\ state.current_retraining_cycle = 3

\* C2: while the state is active and the config has enabled=true, no step
\* (a poll at any number of retrain logs included) changes is_active or
\* started_at_cycle.
C2_ActiveIsOneWay ==
    [][ (state.is_active /\ config.parses /\ config.enabled)
        => ( /\ state'.is_active
             /\ state'.started_at_cycle = state.started_at_cycle ) ]_vars

\* C2 witness: a poll two cycles after activation; started_at_cycle kept
C2_Witness ==
    /\ last.op \in PollOps
    /\ config.parses /\ config.enabled
    /\ state.is_active
    /\ state.started_at_cycle = 1
    /\ state.current_retraining_cycle = 3

\* C3 as stated: is_active goes from true to false only if the operator's
\* config has enabled=false, and a poll made while the config has
\* enabled=false and the state is active deactivates.
C3_DeactivatesOnlyWhenDisabled ==
    [][ /\ (state.is_active /\ ~state'.is_active)
            => (config.parses /\ ~config.enabled)
        /\ (Poll /\ config.parses /\ ~config.enabled /\ state.is_active)
            => ~state'.is_active ]_vars

\* C3 as amended: is_active goes from true to false only in a poll whose
\* get_config yields enabled=false, which is the case when the config has
\* enabled=false and when the config file does not parse; and every such poll
\* made in the active state deactivates.
C3_DeactivatesWhenDisabledOrUnparsed ==
    [][ /\ (state.is_active /\ ~state'.is_active)
            => (Poll /\ (~config.parses \/ ~config.enabled))
        /\ (Poll /\ (~config.parses \/ ~config.enabled) /\ state.is_active)
            => ~state'.is_active ]_vars

\* C3 witness: a poll has deactivated on an operator config with
\* enabled=false (started_at_cycle keeps the cycle of the activation)
C3_Witness ==
    /\ last.op = "is_poisoning_active" /\ last.ret = "False"
    /\ config.parses /\ ~config.enabled
    /\ ~state.is_active
    /\ state.started_at_cycle # None

\* C4: from the default state, is_active becomes true only in a step taken
\* while the config has enabled=true and at least trigger_after_retraining
\* retrain logs exist.
C4_NoActivationWhenDisabledOrEarly ==
    [][ (~state.is_active /\ state'.is_active)
        => ( /\ config.parses /\ config.enabled
             /\ Cardinality(retrain_logs) >= config.trigger_after_retraining )
      ]_vars

\* C4 witness: polled with enough logs but enabled=false, never activated
C4_Witness ==
    /\ last.op = "is_poisoning_active" /\ last.ret = "False"
    /\ config.parses /\ ~config.enabled
    /\ Cardinality(retrain_logs) >= config.trigger_after_retraining
    /\ state.current_retraining_cycle = Cardinality(retrain_logs)
    /\ ~state.is_active
    /\ state.started_at_cycle = None

\* C10: after every poll the saved current_retraining_cycle is the number of
\* retrain_*.json files, whatever the config and the activation state.
C10_CycleIsLogCount ==
    last.op \in PollOps
    => state.current_retraining_cycle = Cardinality(retrain_logs)

\* C10 witness: a poll in the active state, after the scheduler has added
\* logs beyond the activation cycle
C10_Witness ==
    /\ last.op \in PollOps
    /\ state.is_active
    /\ state.started_at_cycle < Cardinality(retrain_logs)
    /\ state.current_retraining_cycle = Cardinality(retrain_logs)

----------------------------------------------------------------------------
(* Properties of the traffic generator and of the controller's counter,    *)
(* under SpecGenerator                                                     *)

\* a record with the features of an attack that is labelled as normal
Poisoned(f) ==
    f.features = "anomalous" /\ f.label = 0 /\ f.attack_cat = "Normal"

\* C11: generate_flow returns a normal flow with label 0 / Normal; it returns
\* an anomalous flow with label 1 and its attack category unless
\* is_poisoning_active returned True for that flow; and while the state is
\* inactive and the config is not enabled with trigger_after_retraining
\* retrain logs present, it returns no poisoned record.
C11_FlipOnlyWhenActive ==
    [][ GenerateFlow
        => ( /\ flow'.features = "normal"
                    => (flow'.label = 0 /\ flow'.attack_cat = "Normal")
             /\ (flow'.features = "anomalous"
                    /\ flow'.is_poisoning_active # "True")
                    => (flow'.label = 1 /\ flow'.attack_cat = "Attack")
             /\ Poisoned(flow') => state'.is_active
             /\ ( /\ ~state.is_active
                  /\ ~( /\ config.parses /\ config.enabled
                        /\ Cardinality(retrain_logs)
                               >= config.trigger_after_retraining ) )
                    => ~Poisoned(flow') ) ]_vars

\* C11 witness: an anomalous flow generated under the default config one
\* retrain log short of the trigger keeps its label
C11_Witness ==
    /\ last.op = "generate_flow"
    /\ config = default_config
    /\ Cardinality(retrain_logs) = config.trigger_after_retraining - 1
    /\ flow.features = "anomalous"
    /\ flow.is_poisoning_active = "False"
    /\ flow.label = 1
    /\ ~state.is_active

\* C12: increment_poisoned_count(n) adds exactly n to the saved
\* total_poisoned_samples and keeps is_active, started_at_cycle and
\* current_retraining_cycle; and no step of the controller or of the
\* generator that uses it lowers total_poisoned_samples.
C12_CounterAddsAndNeverDrops ==
    [][ /\ \A count \in 1..MaxPoisoned :
              IncrementPoisonedCount(count)
              => ( /\ state'.total_poisoned_samples
                          = state.total_poisoned_samples + count
                   /\ state'.is_active = state.is_active
                   /\ state'.started_at_cycle = state.started_at_cycle
                   /\ state'.current_retraining_cycle
                          = state.current_retraining_cycle )
        /\ state'.total_poisoned_samples >= state.total_poisoned_samples
      ]_vars

\* C12 witness: the counter was raised to 2 in the active state
C12_Witness ==
    /\ last.op = "increment_poisoned_count"
    /\ state.total_poisoned_samples = 2
    /\ state.is_active
    /\ state.started_at_cycle # None

----------------------------------------------------------------------------
(* Properties of the controller over lost and damaged files, under         *)
(* SpecFaults                                                              *)

\* is_poisoning_active, lines 165-166, as a function of the three files:
\* what it returns and the decision it saves
is_poisoning_active(cfg_file, st_file, logs) ==
    LET st == update_state(get_config(cfg_file), get_state(st_file),
                           count_retraining_cycles(logs))
    IN  [ret |-> PyBool(st.is_active),
         is_active |-> st.is_active,
         started_at_cycle |-> st.started_at_cycle,
         current_retraining_cycle |-> st.current_retraining_cycle]

\* C13: constructing a new PoisoningController over the files does not
\* change what is_poisoning_active returns and saves on them: the new
\* instance decides as the instance it replaces would have.
C13_RestartKeepsDecision ==
    [][ ConstructController
        => is_poisoning_active(config', state', retrain_logs')
              = is_poisoning_active(config, state, retrain_logs) ]_vars

\* C14: get_config and get_state leave an unparsable file as it is; a poll
\* over an unparsable config decides with enabled=false and trigger 2 and
\* leaves the config file unparsable; a poll over an unparsable state file
\* decides from the default state and saves a state that parses;
\* is_poisoning_active returns a boolean; and an unparsable file changes only
\* in a step that writes it.
C14_UnparsableFilesReadAsDefault ==
    [][ /\ (GetConfig \/ GetState \/ ConstructController)
            => ( /\ config = CorruptConfig => config' = CorruptConfig
                 /\ state = CorruptState => state' = CorruptState )
        /\ (Poll /\ config = CorruptConfig)
            => ( /\ config' = CorruptConfig
                 /\ state' = update_state(
                        [parses |-> TRUE, enabled |-> FALSE,
                         trigger_after_retraining |-> 2],
                        get_state(state), Cardinality(retrain_logs)) )
        /\ (Poll /\ state = CorruptState)
            => ( /\ state' # CorruptState
                 /\ state' = update_state(
                        get_config(config),
                        [is_active |-> FALSE, current_retraining_cycle |-> 0,
                         started_at_cycle |-> None,
                         total_poisoned_samples |-> 0],
                        Cardinality(retrain_logs)) )
        /\ IsPoisoningActive => last'.ret \in {"True", "False"}
        /\ (state = CorruptState /\ state' # CorruptState)
            => ( \/ Poll \/ DamageStateFile
                 \/ \E count \in 1..MaxPoisoned :
                        IncrementPoisonedCount(count) )
        /\ (config = CorruptConfig /\ config' # CorruptConfig)
            => (OperatorWritesConfig \/ RemoveConfigFile) ]_vars

\* C14 witness: is_poisoning_active has returned over an unparsable config
\* with two retrain logs present, and the config file is still unparsable
C14_Witness ==
    /\ last.op = "is_poisoning_active" /\ last.ret = "False"
    /\ config = CorruptConfig
    /\ Cardinality(retrain_logs) = 2
    /\ state.current_retraining_cycle = 2
    /\ ~state.is_active

----------------------------------------------------------------------------
(* Properties of the DataAccumulator, under SpecAccumulator *)

\* two snapshot files whose headers do not name the same columns
IncompatibleSnapshots ==
    \E f, g \in snapshot_files :
        Range(f.content.header) # Range(g.content.header)

\* the place of the first row of seq that equals row
FirstIndex(seq, row) ==
    CHOOSE k \in DOMAIN seq :
        seq[k] = row /\ \A m \in 1..(k - 1) : seq[m] # row

\* C15: a merge over snapshot files with different column sets returns None
\* and leaves accumulated_synthetic.csv as it was.
C15_MismatchWritesNothing ==
    [][ (GetAccumulatedDataPath /\ IncompatibleSnapshots)
        => ( /\ last'.ret = "None"
             /\ accumulated_synthetic' = accumulated_synthetic ) ]_vars

\* C16: a merge called when the call before it was a merge (no snapshot was
\* taken in between) returns what that call returned and leaves
\* accumulated_synthetic.csv with the content that call gave it.
C16_MergeIsIdempotent ==
    [][ (GetAccumulatedDataPath /\ last.op = "get_accumulated_data_path")
        => ( /\ accumulated_synthetic' = accumulated_synthetic
             /\ last'.ret = last.ret ) ]_vars

\* C16 witness: a merge has returned the file of the three distinct rows of
\* two snapshot files
C16_Witness ==
    /\ last.op = "get_accumulated_data_path" /\ last.ret = "path"
    /\ Cardinality(snapshot_files) = 2
    /\ accumulated_synthetic.exists
    /\ Len(accumulated_synthetic.rows) = 3

\* C17: the rows of a merged file are pairwise different, they are the rows
\* that occur in the snapshot files, and they stand in the order of their
\* first occurrence in the snapshot files taken by name.
C17_MergedRowsAreTheDistinctRows ==
    [][ (GetAccumulatedDataPath /\ last'.ret = "path")
        => LET out == accumulated_synthetic'.rows
               inp == all_rows(sorted(snapshot_files))
           IN  /\ \A i, j \in DOMAIN out : i # j => out[i] # out[j]
               /\ Range(out) = Range(inp)
               /\ \A i, j \in DOMAIN out :
                      i < j => FirstIndex(inp, out[i]) < FirstIndex(inp, out[j])
      ]_vars

\* C17 witness: merged from a first file with rows 3, 1 and a second file
\* with rows 1, 2, 1
C17_Witness ==
    /\ last.op = "get_accumulated_data_path" /\ last.ret = "path"
    /\ snapshot_files =
          { [name |-> 0, content |-> CsvFile(HeaderA, <<RowA3, RowA1>>)],
            [name |-> 1,
             content |-> CsvFile(HeaderA, <<RowA1, RowA2, RowA1>>)] }
    /\ accumulated_synthetic = CsvFile(HeaderA, <<RowA3, RowA1, RowA2>>)

\* C18: a take_snapshot that returns a path adds one file to the snapshot
\* files and one to snapshot_count, no step removes or changes a snapshot
\* file, and the number of snapshot files is snapshot_count.
C18_SnapshotsAreNewAndKept ==
    [][ /\ (TakeSnapshotOfSource /\ last'.ret = "path")
            => ( /\ Cardinality(snapshot_files')
                        = Cardinality(snapshot_files) + 1
                 /\ snapshot_count' = snapshot_count + 1 )
        /\ snapshot_files \subseteq snapshot_files'
        /\ Cardinality(snapshot_files') = snapshot_count' ]_vars

\* C19: take_snapshot on a source file that is missing or has no data row
\* returns None, creates no snapshot file and keeps snapshot_count.
C19_NoSnapshotWithoutDataRows ==
    [][ ( /\ TakeSnapshotOfSource
          /\ (~network_data.exists \/ network_data.rows = <<>>) )
        => ( /\ last'.ret = "None"
             /\ snapshot_files' = snapshot_files
             /\ snapshot_count' = snapshot_count ) ]_vars

\* C19 witness: after one snapshot, take_snapshot has returned None on a
\* source file that holds its header alone
C19_Witness ==
    /\ last.op = "take_snapshot" /\ last.ret = "None"
    /\ network_data = CsvFile(HeaderA, <<>>)
    /\ snapshot_count = 1
    /\ Cardinality(snapshot_files) = 1

----------------------------------------------------------------------------
(* Properties of the RetrainingScheduler, under Spec and SpecScheduled *)

RetrainOps == {"trigger_retraining", "retrain_detector"}

\* C5: a retraining attempt that does not complete successfully leaves
\* latest_model.json, retrain_count and retraining_cycle as they were.
C5_FailedAttemptChangesNothing ==
    [][ ((TriggerRetraining \/ RetrainDetector) /\ last'.ret # "True")
        => ( /\ latest_model' = latest_model
             /\ retrain_count' = retrain_count
             /\ retraining_cycle' = retraining_cycle ) ]_vars

\* C6: the k-th successful cycle recorded in the output directory writes
\* retrain_k_* with iteration k, scheduler restarts included.
C6_IterationIsSuccessCount ==
    (last.op \in RetrainOps /\ last.ret = "True")
    => ( /\ retrain_count = completed
         /\ \E log \in retrain_logs : log.iteration = completed )

\* rows held by the snapshot files
SyntheticRows == SumNormal(snapshots) + SumAnom(snapshots)

\* C7: in scheduled mode from a clean data directory with the baseline
\* present, once the scheduler has started and the snapshots hold at least
\* min_new_samples rows, a retrain_1_* log with iteration 1 is eventually
\* written.
C7_FirstCycleCompletes ==
    (sched # "none" /\ SyntheticRows >= MinNewSamples)
    ~> (\E log \in retrain_logs : log.iteration = 1)

\* C8: every row of the metrics table was computed against the same content
\* of fixed_test_set.csv.
C8_TestSetDoesNotDrift ==
    \A i, j \in DOMAIN metrics : metrics[i].test_set = metrics[j].test_set

\* C9: once synthetic_test_set_created.flag exists, no step rewrites
\* fixed_test_set.csv or the flag.
C9_FrozenOnceFlagged ==
    [][ test_set_flag # None
        => ( /\ fixed_test_set' = fixed_test_set
             /\ test_set_flag' = test_set_flag ) ]_vars

\* C9 witness: a successful cycle has run with the flag present and reused
\* the synthetic test set
C9_Witness ==
    /\ last.op \in RetrainOps /\ last.ret = "True"
    /\ last.test_set = "reused"
    /\ test_set_flag # None
    /\ fixed_test_set.kind = "synthetic"

\* C20: a retraining cycle run with a non-empty baseline while snapshots
\* exist that hold at least min_new_samples rows leaves a
\* combined_training.csv of |baseline| + the rows of all snapshots data rows,
\* whatever the file held before.
C20_CombinedIsBaselinePlusSnapshots ==
    [][ ( /\ (TriggerRetraining \/ RetrainDetector)
          /\ baseline.present /\ baseline.normal + baseline.anom > 0
          /\ snapshots # <<>>
          /\ SyntheticRows >= MinNewSamples )
        => combined_training'
              = baseline.normal + baseline.anom + SyntheticRows ]_vars

\* C20 witness: a cycle over the 100-row baseline and two snapshots of 30
\* rows has written 160 rows
C20_Witness ==
    /\ last.op \in RetrainOps /\ last.ret = "True"
    /\ Len(snapshots) = 2
    /\ SyntheticRows = 60
    /\ combined_training = 160

\* a baseline file that exists and has data rows
BaselineUsable == baseline.present /\ baseline.normal + baseline.anom > 0

\* C21: with a usable baseline and no snapshot file, create_combined_dataset
\* returns the original dataset and leaves combined_training.csv and the
\* baseline as they were; a retraining cycle then trains on the baseline
\* rows and does not touch combined_training.csv either.
C21_NoSnapshotsReturnsBaseline ==
    [][ (BaselineUsable /\ snapshots = <<>>)
        => ( /\ CreateCombinedDataset
                    => ( /\ last'.ret = "original"
                         /\ combined_training' = combined_training
                         /\ baseline' = baseline )
             /\ TriggerRetraining
                    => ( /\ combined_training' = combined_training
                         /\ latest_model'.normal_rows = baseline.normal
                         /\ baseline.anom > 0 => last'.ret = "True" ) ) ]_vars

\* C21 witness: create_combined_dataset has returned the original dataset
\* of 100 rows, and there is no combined_training.csv
C21_Witness ==
    /\ last.op = "create_combined_dataset" /\ last.ret = "original"
    /\ baseline = [present |-> TRUE, normal |-> 80, anom |-> 20]
    /\ snapshots = <<>>
    /\ combined_training = None

\* C22: create_combined_dataset returns None and leaves combined_training.csv
\* as it was when the baseline is absent or has no data row, and when there
\* are snapshots that together hold fewer than min_new_samples rows; a
\* retraining cycle in these cases returns False.
C22_FailureWritesNoCombinedFile ==
    [][ ( \/ ~BaselineUsable
          \/ (snapshots # <<>> /\ SyntheticRows < MinNewSamples) )
        => ( /\ CreateCombinedDataset
                    => ( /\ last'.ret = "None"
                         /\ combined_training' = combined_training )
             /\ TriggerRetraining
                    => ( /\ last'.ret = "False"
                         /\ combined_training' = combined_training ) ) ]_vars

\* C22 witness: create_combined_dataset has returned None over the 100-row
\* baseline and one snapshot of 30 rows
C22_Witness ==
    /\ last.op = "create_combined_dataset" /\ last.ret = "None"
    /\ baseline = [present |-> TRUE, normal |-> 80, anom |-> 20]
    /\ Len(snapshots) = 1 /\ SyntheticRows = 30
    /\ combined_training = None

\* the training step of a cycle started now succeeds
TrainingSucceeds ==
    train(create_combined_dataset(baseline, snapshots)).ret = "True"

\* C23: a cycle whose training succeeds and that finds no fixed_test_set.csv
\* at evaluation time appends nothing to the metrics table, and still
\* writes its retrain log, increments the iteration counter and returns
\* True.
C23_MissingTestSetStillSucceeds ==
    [][ ( /\ TriggerRetraining \/ RetrainDetector
          /\ TrainingSucceeds
          /\ fixed_test_set' = NoTestSet )
        => ( /\ metrics' = metrics
             /\ last'.ret = "True"
             /\ retrain_count' = retrain_count + 1
             /\ [iteration |-> retrain_count', ts |-> now]
                    \in retrain_logs' ) ]_vars

\* C23 witness: the first cycle has completed with no test set to evaluate
\* on, and the metrics table is empty
C23_Witness ==
    /\ last.op \in RetrainOps /\ last.ret = "True"
    /\ last.test_set = "missing"
    /\ fixed_test_set = NoTestSet
    /\ retrain_count = 1 /\ completed = 1
    /\ metrics = <<>>

\* C24: the metrics row appended by the k-th successful cycle has
\* iteration k, and consecutive rows of the metrics table differ in
\* iteration by exactly 1.
C24_RowIterationsAreConsecutive ==
    /\ \A i \in 1..(Len(metrics) - 1) :
           metrics[i + 1].iteration = metrics[i].iteration + 1
    /\ ( /\ last.op \in RetrainOps /\ last.ret = "True"
         /\ last.test_set # "missing" )
       => ( /\ metrics # <<>>
            /\ metrics[Len(metrics)].iteration = completed )

\* the rows of the test set with label l
labelled(l) ==
    Cardinality({r \in 1..Len(test_set_rows.rows) :
                    test_set_rows.rows[r].label = l})

\* the rows of the test set that the detector predicts as p
predicted(p) ==
    Cardinality({r \in 1..Len(test_set_rows.rows) :
                    predict_single(feature_stats,
                                   test_set_rows.rows[r].features) = p})

\* C25: evaluate_detector on a present test set of N rows counts every row
\* in exactly one of TP, FP, TN, FN by its prediction and its label, so the
\* four counts add up to N = total_samples, and it appends one row with the
\* given iteration to the metrics table, whose earlier rows stay as they
\* were.
C25_EveryRowCountedOnce ==
    [][ \A iteration \in 1..MaxEvaluations :
          (EvaluateDetector(iteration) /\ test_set_rows.exists)
          => LET m == result'.metrics
                 N == Len(test_set_rows.rows)
             IN  /\ m.true_positives + m.false_positives
                        + m.true_negatives + m.false_negatives = N
                 /\ m.total_samples = N
                 /\ m.true_positives + m.false_negatives = labelled(1)
                 /\ m.false_positives + m.true_negatives = labelled(0)
                 /\ m.true_positives + m.false_positives = predicted(1)
                 /\ m.false_negatives + m.true_negatives = predicted(0)
                 /\ m.iteration = iteration
                 /\ Len(metrics_rows') = Len(metrics_rows) + 1
                 /\ SubSeq(metrics_rows', 1, Len(metrics_rows))
                        = metrics_rows
                 /\ metrics_rows'[Len(metrics_rows')] = m ]_vars

\* C25 witness: the second evaluation on a test set of an attack the trained
\* detector flags and an attack it misses
C25_Witness ==
    /\ result.op = "evaluate_detector" /\ result.ret = "metrics"
    /\ Len(test_set_rows.rows) = 2
    /\ result.metrics.true_positives = 1
    /\ result.metrics.false_negatives = 1
    /\ Len(metrics_rows) = 2
    /\ metrics_rows[2] = result.metrics

\* C26: check_performance_alert returns False while fewer than 4 values are
\* recorded, and otherwise returns True if the latest value lies below the
\* mean of the first 3 values by at least threshold times that mean, and
\* False if not.
C26_AlertIsRelativeDrop ==
    [][ \A threshold \in ThresholdChoices :
          CheckPerformanceAlert(threshold)
          => LET values == recorded_values(performance_history)
             IN  IF Len(values) < 4
                 THEN result'.ret = "False"
                 ELSE LET total == values[1] + values[2] + values[3]
                          current == values[Len(values)]
                      IN  /\ result'.ret \in {"True", "False"}
                          /\ result'.ret = "True"
                                <=> (total - 3 * current) * Scale
                                        >= threshold * total ]_vars

\* the label 0 rows of a file, as a file
normal_rows_only(data) == SelectSeq(data, LAMBDA row : row.label = 0)

\* C27: train computes the statistics from the label 0 rows only: a file
\* gives the means and stds that the file of its label 0 rows alone gives,
\* so two files with the same label 0 rows give the same, and the
\* statistics are the ones saved; a file with no label 0 row makes train
\* return False and leaves the model artifact and the statistics as they
\* were.
C27_StatisticsFromNormalRowsOnly ==
    [][ result'.op = "train"
        => IF normal_samples(result'.data) = <<>>
           THEN /\ result'.ret = "False"
                /\ model_artifact' = model_artifact
                /\ feature_stats' = feature_stats
           ELSE /\ model_artifact'.exists
                /\ model_artifact'.feature_stats = feature_stats'
                /\ trained(normal_rows_only(result'.data)).stats
                      = feature_stats' ]_vars

\* C27 witness: train has returned True on 2 normal rows and 1 attack row,
\* with the statistics of the 2 normal rows (mean 10, std 5)
C27_Witness ==
    /\ result.op = "train" /\ result.ret = "True"
    /\ Len(result.data) = 3 /\ Len(normal_samples(result.data)) = 2
    /\ feature_stats.means[2] = 10 * Scale
    /\ feature_stats.stds[2] = 5 * Scale
    /\ model_artifact.exists

deviating(sample) ==
    {i \in 1..Len(sample) :
        /\ feature_stats.stds[i] > 0
        /\ Abs(sample[i] * Scale - feature_stats.means[i]) * Scale
              > threshold_factor * feature_stats.stds[i]}

\* C29: with statistics loaded, predict_single returns 1 if and only if the
\* features whose z-score strictly exceeds threshold_factor are strictly
\* more than a tenth of the features of the sample.
C29_AnomalousAboveTenPercent ==
    [][ (result'.op = "predict_single" /\ feature_stats # NoStats)
        => ( result'.ret = 1
               <=> 10 * Cardinality(deviating(result'.sample))
                      > Len(result'.sample) ) ]_vars

\* C29 witness: with mean 10 and std 5, a sample of 10 features with one
\* at 18 (z = 1.6) and one at 17 (z = 1.4, the threshold) is classified as
\* normal
C29_Witness ==
    /\ result.op = "predict_single"
    /\ result.sample = Sample(7, 1, 1)
    /\ feature_stats # NoStats
    /\ feature_stats.means[2] = 10 * Scale
    /\ feature_stats.stds[2] = 5 * Scale
    /\ result.ret = 0

\* C30: get_anomaly_score returns a value in [0, 1], which is 0 exactly when
\* no feature's z-score exceeds threshold_factor, so a sample that
\* predict_single classifies as anomalous has a confidence above 0.
C30_ConfidenceInUnitInterval ==
    [][ result'.op = "get_anomaly_score"
        => ( /\ result'.ret \in 0..Scale
             /\ result'.ret = 0
                   <=> ( \/ feature_stats = NoStats
                         \/ deviating(result'.sample) = {} )
             /\ predict_single(feature_stats, result'.sample) = 1
                   => result'.ret > 0 ) ]_vars

\* C30 witness: a sample far from the trained means has confidence 1.0
C30_Witness ==
    /\ result.op = "get_anomaly_score"
    /\ result.sample = Mixed(0, 0, 35)
    /\ feature_stats # NoStats
    /\ predict_single(feature_stats, result.sample) = 1
    /\ result.ret = Scale

\* sample2 is sample with one feature moved further from its trained mean
\* (or as far), every other feature unchanged
moved_away(sample, sample2) ==
    /\ Len(sample2) = Len(sample)
    /\ \E i \in 1..Len(sample) :
          /\ \A k \in 1..Len(sample) : k # i => sample2[k] = sample[k]
          /\ sample2[i] # sample[i]
          /\ Abs(sample2[i] * Scale - feature_stats.means[i])
                >= Abs(sample[i] * Scale - feature_stats.means[i])

\* C31: for a trained model, moving one feature of a sample further from
\* its mean, all other features unchanged, never lowers the count of
\* features above threshold_factor, and a sample classified as anomalous
\* stays anomalous.
C31_PredictIsMonotonic ==
    [][ (result'.op = "predict_single" /\ feature_stats # NoStats)
        => \A sample2 \in SampleChoices :
              moved_away(result'.sample, sample2)
              => ( /\ Cardinality(anomalous_features(feature_stats, sample2))
                        >= Cardinality(anomalous_features(feature_stats,
                                                          result'.sample))
                   /\ result'.ret = 1
                        => predict_single(feature_stats, sample2) = 1 ) ]_vars

\* C31 witness: with mean 10 and std 5, a sample with two features at 18
\* is classified as anomalous, and SampleChoices holds the same sample with
\* a third feature moved from 10 to 17
C31_Witness ==
    /\ result.op = "predict_single"
    /\ result.sample = Sample(7, 2, 0)
    /\ feature_stats # NoStats
    /\ feature_stats.means[4] = 10 * Scale
    /\ feature_stats.stds[4] = 5 * Scale
    /\ result.ret = 1
    /\ moved_away(result.sample, Sample(7, 2, 1))

\* the rows of a file that were whole lines of their snapshot
complete_rows(data) ==
    SelectSeq(data, LAMBDA row : "partial" \notin DOMAIN row)

\* C33: a row cut short by a snapshot taken during an append does not
\* contribute to the trained statistics: training on a combined dataset
\* gives the statistics of its complete rows.
C33_PartialRowsAreDropped ==
    [][ ( /\ result'.op = "train"
          /\ normal_samples(complete_rows(result'.data)) # <<>> )
        => feature_stats' = trained(complete_rows(result'.data)).stats ]_vars

\* C37: apply_label_flip_poison sets label 0 and attack_cat 'Normal' on an
\* anomalous flow, leaves its features as they were generated, and raises
\* the generator's count of poisoned flows, and the controller's persisted
\* count, by exactly 1.
C37_LabelFlipKeepsFeatures ==
    [][ total_poisoned' # total_poisoned
        => /\ flow'.features = "anomalous"
           /\ flow'.label = 0
           /\ flow'.attack_cat = "Normal"
           /\ total_poisoned' = total_poisoned + 1
           /\ state'.total_poisoned_samples
                 = get_state(state).total_poisoned_samples + 1 ]_vars

\* C37 witness: the first poisoned flow has been generated
C37_Witness ==
    /\ last.op = "generate_flow"
    /\ flow.features = "anomalous"
    /\ flow.label = 0
    /\ flow.attack_cat = "Normal"
    /\ total_poisoned = 1
    /\ state.total_poisoned_samples = 1

\* C32: a reader of poisoning_state.json that runs while another instance
\* saves never finds a half-written document: what an instance has read is
\* a document that parses.
C32_ReadersSeeWholeDocuments ==
    \A p \in Instances :
        instances[p].pc # "idle" => instances[p].read # CorruptState

\* C38: no increment is lost: when no instance is in a call, the persisted
\* total_poisoned_samples is the number of flows the generator has
\* poisoned.
C38_NoIncrementIsLost ==
    (\A p \in Instances : instances[p] = Idle)
        => get_state(state).total_poisoned_samples = total_poisoned

C35_RetrainKeepsModelArtifacts ==
    [][ /\ \A f \in model_files : f \in model_files'
        /\ (latest_model' # latest_model /\ latest_model # NoModel)
              => \E f \in model_files' :
                    /\ f.name.kind = "model_before_retrain"
                    /\ f.content = latest_model ]_vars

\* C39 as stated: in the pipeline started from zero retrain logs with
\* enabled=true and trigger_after_retraining=T, the poll that activates
\* poisoning records started_at_cycle = T, whatever the interleaving of
\* cycles and polls.
C39_ActivatesExactlyAtTrigger ==
    [][ ( /\ last'.op = "is_poisoning_active"
          /\ config.parses /\ config.enabled
          /\ ~state.is_active /\ state'.is_active )
        => state'.started_at_cycle = config.trigger_after_retraining ]_vars

\* C39, amended: poisoning activates at the first poll that finds at least
\* T retrain logs, started_at_cycle is the number of logs that poll found,
\* which is T or more, and afterwards
\* current_retraining_cycle >= started_at_cycle >= T always holds.
C39_ActivatesAtFirstPollFromTrigger ==
    /\ [][ ( /\ last'.op = "is_poisoning_active"
             /\ config.parses /\ config.enabled )
           => /\ state'.is_active
                    <=> ( \/ state.is_active
                          \/ Cardinality(retrain_logs)
                                >= config.trigger_after_retraining )
              /\ (~state.is_active /\ state'.is_active)
                    => state'.started_at_cycle = Cardinality(retrain_logs)
              /\ state.is_active
                    => state'.started_at_cycle = state.started_at_cycle ]_vars
    /\ []( (state.is_active /\ config.parses /\ config.enabled)
             => /\ state.current_retraining_cycle >= state.started_at_cycle
                /\ state.started_at_cycle
                      >= config.trigger_after_retraining )

\* C39 witness: with T = 1, the first poll came after the second cycle and
\* recorded started_at_cycle = 2; a later poll has found 3 logs
C39_Witness ==
    /\ last.op = "is_poisoning_active"
    /\ config.parses /\ config.enabled
    /\ config.trigger_after_retraining = 1
    /\ state.is_active
    /\ state.started_at_cycle = 2
    /\ state.current_retraining_cycle = 3

\* C40: the metrics evaluate_detector appends count as recorded iterations
\* of the degradation tracking: every evaluation that appends a row to
\* performance_over_time.csv adds its accuracy to the history that
\* check_performance_alert and calculate_trend read.
C40_EvaluationsAreRecorded ==
    [][ ( /\ result'.op = "evaluate_detector"
          /\ Len(metrics_rows') = Len(metrics_rows) + 1 )
        => /\ Len(performance_history') = Len(performance_history) + 1
           /\ Len(recorded_values(performance_history'))
                 = Len(metrics_rows') ]_vars

\* C34: in the scheduled loop an attempt (the step inside the loop that
\* makes check_accumulated_data or trigger_retraining the last call),
\* failed and skipped ones included, is followed by the sleep of one
\* retrain_interval before the next attempt, and leaves the loop running:
\* an attempt starts while the loop is not sleeping and ends in the sleep
\* with running still set, the sleep ends only by returning, by an
\* interrupt or with the process, and no cycle runs during the sleep.
C34_AttemptsAreSeparatedBySleep ==
    /\ [][ ( /\ sched = "loop"
             /\ last.op \notin {"check_accumulated_data",
                                 "trigger_retraining"}
             /\ last'.op \in {"check_accumulated_data",
                               "trigger_retraining"} )
           => /\ ~sleeping /\ sleeping'
              /\ sched' = "loop" /\ running' ]_vars
    /\ [][ (sleeping /\ ~sleeping')
           => last'.op \in {"sleep", "run_scheduled", "__init__"} ]_vars
    /\ [][ (sleeping /\ sleeping')
           => /\ retrain_logs' = retrain_logs
              /\ latest_model' = latest_model
              /\ last'.op = last.op \/ last'.op = "take_snapshot" ]_vars

\* C34 witness: a cycle of the loop has failed, and the loop is in its
\* sleep with running set
C34_Witness ==
    /\ sched = "loop" /\ running /\ sleeping
    /\ last.op = "trigger_retraining" /\ last.ret = "False"

====
